---- MODULE Spec2Model ----
(***************************************************************************)
(* sans-server-middleware: the weighted hook registry (Middleware), the    *)
(* chain executor (run / reverse) and the log span tree (Log) it writes.   *)
(* Modelled from src/bin/middleware.js and src/bin/log.js.                 *)
(*                                                                         *)
(* JavaScript runs one task at a time.  A synchronous call that the code   *)
(* makes from inside a handler (the wrapper calling next, a hook calling   *)
(* done before it returns) is kept on `stack` and is the only step that    *)
(* may be taken while it is there; calls a hook makes later, from a timer, *)
(* and promise reactions are separate tasks.                               *)
(***************************************************************************)
EXTENDS Integers, Sequences, FiniteSets, TLC

(* ---------------------------- bounds ---------------------------------- *)
MaxHooks == 3
MaxRuns == 1
MaxRepeats == 1
MaxInterleaved == 2
MaxNested == 1
MaxItems == 3
MaxReruns == 2
MaxStarts == 2
MaxEvents == 1
MaxMs == 12500
MaxNear == 600

(* ---------------------------- inputs ---------------------------------- *)
\* weights handed to add: negative, zero, one digit, several digits
Weights == {-10, 0, 9, 100}

\* what a hook hands to done, or throws: undefined, a falsy value, two errors
UNDEFINED == "undefined"
Values == {UNDEFINED, "0", "E1", "E2"}

\* what add and from are given: a function with n declared parameters, a
\* number, nothing, or a value that is neither
Function(n) == [type |-> "function", n |-> n]
Number(v) == [type |-> "number", n |-> v]
Undefined == [type |-> "undefined", n |-> 0]
Object == [type |-> "object", n |-> 0]

\* the hook functions registered: normal (req, res, next) and error-handling
\* (err, req, res, next)
Hooks == {Function(3), Function(4)}

\* values that are not functions: no hook at all, and a hook that is an object
NotFunctions == {Undefined, Object}

\* JavaScript truthiness of those values and of the error Log throws (the test
\* `err` / `!err`)
Truthy(v) == v \in {"E1", "E2", "EPARM"}

\* the names the registries are constructed with: the registry of the tests, and
\* the second registry a hook of the first one runs
MiddlewareName == "test-middleware"
ErrorProducer == "error producer"
Registries == {MiddlewareName, ErrorProducer}

(* ----------------------- Array.prototype.sort ------------------------- *)
\* UTF-16 code units of the decimal digits of a natural number
RECURSIVE Digits(_)
Digits(n) == IF n < 10 THEN <<48 + n>> ELSE Append(Digits(n \div 10), 48 + (n % 10))

\* Number::toString for an integer: '-' (code unit 45) then the digits
NumToStr(n) == IF n < 0 THEN <<45>> \o Digits(0 - n) ELSE Digits(n)

\* s < t for strings: the first differing code unit decides, a proper prefix is smaller
RECURSIVE StrLess(_, _)
StrLess(s, t) ==
    IF t = <<>> THEN FALSE
    ELSE IF s = <<>> THEN TRUE
    ELSE IF Head(s) # Head(t) THEN Head(s) < Head(t)
    ELSE StrLess(Tail(s), Tail(t))

\* the comparison keys.sort() uses when it is given no comparator:
\* both elements are converted to strings and the strings are compared
SortCompare(x, y) == StrLess(NumToStr(x), NumToStr(y))

\* insertion of one key into an already sorted list
RECURSIVE InsertKey(_, _)
InsertKey(k, s) ==
    IF s = <<>> THEN <<k>>
    ELSE IF SortCompare(k, Head(s)) THEN <<k>> \o s
    ELSE <<Head(s)>> \o InsertKey(k, Tail(s))

\* keys.sort(): the keys in ascending order of SortCompare
RECURSIVE SortKeys(_)
SortKeys(keys) == IF keys = <<>> THEN <<>> ELSE InsertKey(Head(keys), SortKeys(Tail(keys)))

\* result.concat.apply(result, data): the buckets one after the other
RECURSIVE Concat(_)
Concat(data) == IF data = <<>> THEN <<>> ELSE Head(data) \o Concat(Tail(data))

(* ------------------------------ state --------------------------------- *)
VARIABLES
    advanced,   \* registry -> its config.log.advanced, as the constructor leaves it
    hooks,      \* the wrapped functions add has created, in creation order
    keys,       \* registry -> the keys of its weights Map, in insertion order
    buckets,    \* registry -> the values of its weights Map: weight -> wrapped functions
    ordered,    \* registry -> its _.ordered: null, or the cached execution sequence
    length,     \* registry -> its _.length
    reqLog,     \* req.log: 0 is the host's own log method, else the span fnLog writes to
    logs,       \* every Log object created, in creation order
    runs,       \* every call of run / reverse: its chain, its promise, its history
    turns,      \* every invocation of a hook function and the done calls it has made
    stack,      \* synchronous continuation calls not yet executed, innermost first
    jobs,       \* promise reactions queued by promise.then(next, next)
    emitted,    \* what req.emit has been given
    lastCall    \* the latest call of add, from, sort, length, req.log or seconds: what
                \* it was given and what it threw or returned

vars == <<advanced, hooks, keys, buckets, ordered, length, reqLog, logs, runs, turns,
          stack, jobs, emitted, lastCall>>

\* _.weights.has(w) of the registry value this
HasKey(this, w) == \E i \in 1..Len(this.keys) : this.keys[i] = w

(* ------------------------------- Log ---------------------------------- *)
\* new Log(category, config, parent): parent 0 is no parent
NewLog(L, category, parent) ==
    LET id == Len(L) + 1
        root == IF parent # 0 THEN L[parent].root ELSE id
        log == [category |-> category,
                depth |-> IF parent # 0 THEN L[parent].depth + 1 ELSE 0,
                events |-> <<>>,
                index |-> 0,
                parent |-> parent,
                root |-> root,
                active |-> 0,
                releases |-> 0,
                \* history: the span that was active in the tree when this one was opened
                opened |-> IF parent # 0 THEN L[root].active ELSE 0]
        L1 == Append(L, log)
    IN [L1 EXCEPT ![root].active = id]

\* mutant of Counter: every span counts its own events
OwnCounter(L, id) == id

\* this.root.index++: the Log whose counter numbers the events of span id
Counter(L, id) == L[id].root

\* mutant of IsActive: every event is recorded as written to the active span
AlwaysActive(L, id) == TRUE

\* this.root.active === this
IsActive(L, id) == L[L[id].root].active = id

\* Log.prototype.event(action, message) with two strings; a string the code builds by
\* concatenation is kept as the tuple of its parts
LogEvent(L, id, action, message) ==
    LET root == Counter(L, id)
        event == [kind |-> "event",
                  action |-> action,
                  message |-> message,
                  active |-> IsActive(L, id),
                  index |-> L[root].index,
                  span |-> 0]
        L1 == [L EXCEPT ![root].index = @ + 1]
    IN [L1 EXCEPT ![id].events = Append(@, event)]

\* Log.prototype.nest(category): the new span is the last Log of the result
LogNest(L, id, category) ==
    LET L1 == NewLog(L, category, id)
        child == [kind |-> "log", action |-> <<>>, message |-> <<>>, active |-> FALSE,
                  index |-> 0, span |-> Len(L1)]
    IN [L1 EXCEPT ![id].events = Append(@, child)]

\* Log.prototype.release()
LogRelease(L, id) ==
    LET L1 == [L EXCEPT ![id].releases = @ + 1]     \* history: release was called on it
    IN [L1 EXCEPT ![L[id].root].active = L[id].parent]

(* ---------------------------- Middleware ------------------------------ *)
\* new Middleware(name, config) for each registry; the second one is constructed
\* with no config, which leaves its config.log.advanced true
Init ==
    /\ advanced \in {a \in [Registries -> BOOLEAN] : a[ErrorProducer]}
    /\ hooks = <<>>
    /\ keys = [m \in Registries |-> <<>>]
    /\ buckets = [m \in Registries |-> [w \in Weights |-> <<>>]]
    /\ ordered = [m \in Registries |-> [isNull |-> TRUE, list |-> <<>>]]
    /\ length = [m \in Registries |-> 0]
    /\ reqLog = 0
    /\ logs = <<>>
    /\ runs = <<>>
    /\ turns = <<>>
    /\ stack = <<>>
    /\ jobs = <<>>
    /\ emitted = <<>>
    /\ lastCall = [op |-> "none", middleware |-> MiddlewareName, args |-> <<>>,
                   thrown |-> "none", before |-> 0]

\* no synchronous call is in progress and no promise reaction is queued:
\* the host may start a new task
Idle == stack = <<>> /\ jobs = <<>>

\* mutant of Push: unshift in place of push
PushFront(bucket, wrapped) == <<wrapped>> \o bucket

\* _.weights.get(weight).push(wrapped)
Push(bucket, wrapped) == Append(bucket, wrapped)

\* the registry m as a call of one of its methods finds it: the wrapped
\* functions created so far, and its _
This(m) == [hooks |-> hooks, keys |-> keys[m], buckets |-> buckets[m],
            ordered |-> ordered[m], length |-> length[m], thrown |-> "none"]

\* mutant of IsFunction: only a missing value is refused
IsDefined(v) == v.type # "undefined"

\* typeof v === 'function'
IsFunction(v) == v.type = "function"

\* mutant of Invalidate: the cached sequence is kept
KeepCache(cache) == cache

\* _.ordered = null
Invalidate(cache) == [isNull |-> TRUE, list |-> <<>>]

\* mutant of Increment: the count is not touched
NoIncrement(n) == n

\* _.length++
Increment(n) == n + 1

\* Middleware.prototype.add called with the arguments a0, a1 on the registry
\* value this of registry m: the registry value it leaves, and what it throws
add(this, m, a0, a1) ==
    LET hook == IF IsFunction(a0) THEN a0 ELSE a1
        weight == IF IsFunction(a0) THEN 0 ELSE a0.n
        len == IF HasKey(this, weight) THEN Len(this.buckets[weight]) ELSE 0
        wrapped == [middleware |-> m, weight |-> weight, errHandler |-> hook.n >= 4,
                    name |-> ToString(len + 1)]
    IN IF ~IsFunction(hook)
       THEN [this EXCEPT !.thrown = "ESHOOK"]
       ELSE [hooks |-> Append(this.hooks, wrapped),
             keys |-> IF HasKey(this, weight) THEN this.keys ELSE Append(this.keys, weight),
             buckets |-> [this.buckets EXCEPT ![weight] = Push(@, Len(this.hooks) + 1)],
             ordered |-> Invalidate(this.ordered),
             length |-> Increment(this.length),
             thrown |-> "none"]

\* mutant of FromArgs: the hooks are registered at another weight
FromArgsHeavy(hook) == <<Number(9), hook>>

\* this.add(0, hook): the arguments from gives add for one item
FromArgs(hook) == <<Number(0), hook>>

\* mutant of Propagates: the loop goes on after an item has failed
Swallowed(thrown) == FALSE

\* an exception thrown by the callback of forEach ends the loop and leaves from
Propagates(thrown) == thrown # "none"

\* Middleware.prototype.from(iterable) on the registry value this of registry m
RECURSIVE from(_, _, _)
from(this, m, iterable) ==
    IF iterable = <<>> THEN this
    ELSE LET args == FromArgs(Head(iterable))
             next == add(this, m, args[1], args[2])
         IN IF Propagates(next.thrown) THEN next ELSE from(next, m, Tail(iterable))

\* the registry value this becomes the state of registry m
Store(m, this) ==
    /\ hooks' = this.hooks
    /\ keys' = [keys EXCEPT ![m] = this.keys]
    /\ buckets' = [buckets EXCEPT ![m] = this.buckets]
    /\ ordered' = [ordered EXCEPT ![m] = this.ordered]
    /\ length' = [length EXCEPT ![m] = this.length]

\* a call m.add(a0, a1)
Add(m, a0, a1) ==
    LET this == add(This(m), m, a0, a1)
    IN /\ Store(m, this)
       /\ lastCall' = [op |-> "add", middleware |-> m, args |-> <<a0, a1>>,
                       thrown |-> this.thrown, before |-> Len(hooks)]
       /\ UNCHANGED <<advanced, reqLog, logs, runs, turns, stack, jobs, emitted>>

\* a call m.from(iterable)
From(m, iterable) ==
    LET this == from(This(m), m, iterable)
    IN /\ Store(m, this)
       /\ lastCall' = [op |-> "from", middleware |-> m, args |-> iterable,
                       thrown |-> this.thrown, before |-> Len(hooks)]
       /\ UNCHANGED <<advanced, reqLog, logs, runs, turns, stack, jobs, emitted>>

\* Middleware.prototype.sort(): the value it stores in _.ordered
Sort(this) ==
    LET sorted == SortKeys(this.keys)
        data == [i \in 1..Len(sorted) |-> this.buckets[sorted[i]]]
    IN Concat(data)

\* mutant of Chain: the run walks the cached array itself, from which the run
\* before it has taken its hooks
NoCopy(list, R) == IF R = <<>> THEN list ELSE R[Len(R)].chain

\* middleware._.ordered.concat(): a new array with the elements of the cached
\* sequence, from which the runs R made before have taken nothing
Chain(list, R) == list

\* the prefix of the runner's event names
Prefix(m) == IF advanced[m] THEN "" ELSE "hook-"

\* run(middleware, req, res, reverse) up to its first call of next, and the
\* promise.then(next, next) of Middleware.prototype.run / reverse when onComplete
\* is given; given is the log of the request (0: the host's own log method, else
\* the span its fnLog writes to), starter the turn of the hook function that
\* makes the call (0: the host)
RunRequest(m, reverse, onComplete, given, starter) ==
    /\ LET list == IF ordered[m].isNull THEN Sort(This(m)) ELSE ordered[m].list
           isRoot == given = 0
           L1 == IF isRoot THEN NewLog(logs, <<"hook-runner">>, 0)
                 ELSE LogNest(logs, given, <<"hook-runner">>)
           log == Len(L1)
           L2 == LogEvent(L1, log, <<Prefix(m), IF reverse THEN "reverse-run" ELSE "run">>,
                          <<m>>)
           id == Len(runs) + 1
       IN /\ ordered' = [ordered EXCEPT ![m] = [isNull |-> FALSE, list |-> list]]
          /\ logs' = L2
          /\ runs' = Append(runs, [middleware |-> m,
                                   starter |-> starter,
                                   reverse |-> reverse,
                                   onComplete |-> onComplete,
                                   returned |-> IF onComplete THEN "undefined" ELSE "promise",
                                   registered |-> Len(hooks),
                                   snapshot |-> list,
                                   chain |-> Chain(list, runs),
                                   log |-> log,
                                   isRoot |-> isRoot,
                                   promise |-> "pending",
                                   value |-> UNDEFINED,
                                   last |-> [hook |-> 0, how |-> "none", err |-> UNDEFINED],
                                   settledWith |-> UNDEFINED,
                                   thrown |-> <<>>,
                                   visits |-> <<>>,
                                   terminals |-> <<>>,
                                   completions |-> <<>>])
          /\ stack' = <<[run |-> id, via |-> "start", turn |-> 0, err |-> UNDEFINED]>> \o stack
    /\ UNCHANGED <<advanced, hooks, keys, buckets, length, reqLog, turns, jobs, emitted,
                   lastCall>>

\* the host calls m.run(req, res, onComplete) or m.reverse(req, res, onComplete)
\* with its request
Run(m, reverse, onComplete) ==
    /\ Idle
    /\ RunRequest(m, reverse, onComplete, reqLog, 0)

\* what a hook function does when it is invoked, before it returns: it calls
\* done(val), it throws val, or it returns and leaves done for later
Outcomes ==
    {[kind |-> k, val |-> v] : k \in {"done", "throw"}, v \in Values}
        \cup {[kind |-> "later", val |-> UNDEFINED]}

\* the hook functions of the weight tests: each calls done before it returns,
\* with no error or with an error
SyncDone == {[kind |-> "done", val |-> v] : v \in {UNDEFINED, "E1"}}

\* the hook functions of the run-twice test, and the slow one: each calls done
\* with no error or with an error, before it returns or later
DoneOrLater == SyncDone \cup {[kind |-> "later", val |-> UNDEFINED]}

\* history: whether the value a hook function last handed on was an error
Passed(v) == IF Truthy(v) THEN "error" ELSE "none"

\* done(err) of the wrapper, up to its call of next: the logs after it
Done(L, t) ==
    LogRelease(IF ~advanced[hooks[turns[t].hook].middleware]
               THEN LogEvent(L, turns[t].log, <<"middleware end">>, <<hooks[turns[t].hook].name>>)
               ELSE L,
               turns[t].log)

\* mutant of SettleOutcome: the rejecting branch is missing
AlwaysResolved(err) == "resolved"

\* else if (err) ... else ... of next(err): which way the run settles
SettleOutcome(err) == IF Truthy(err) THEN "rejected" ELSE "resolved"

\* mutant of FirstSettle: a completion signal that can be settled again
Resettles(run) == TRUE

\* resolve and reject of a promise that is already settled do nothing
FirstSettle(run) == run.promise = "pending"

\* mutant of Promise: the resolve and reject of the run whose hook started run r
OuterPromise(r) == IF runs[r].starter # 0 THEN turns[runs[r].starter].run ELSE r

\* the promise whose resolve and reject the next of run r calls: the one run r
\* has created
Promise(r) == r

\* the else-branches of next(err), taken when the chain is exhausted
Settle(L, r, err, rest) ==
    LET run == runs[r]
        p == Promise(r)
        outcome == SettleOutcome(err)
        L1 == LogRelease(LogEvent(L, run.log, <<Prefix(run.middleware), outcome>>,
                                  <<run.middleware>>),
                         run.log)
        first == FirstSettle(runs[p])
    IN /\ logs' = L1
       /\ emitted' = IF run.isRoot
                     THEN Append(emitted, [event |-> "log-report", run |-> r, log |-> run.log])
                     ELSE emitted
       /\ runs' = [[runs EXCEPT ![r].terminals = Append(@, outcome),
                                ![r].settledWith = IF run.terminals = <<>> THEN err ELSE @]
                       EXCEPT ![p].promise = IF first THEN outcome ELSE @,
                              ![p].value = IF first /\ outcome = "rejected" THEN err ELSE @]
       /\ jobs' = IF first /\ runs[p].onComplete THEN Append(jobs, p) ELSE jobs
       /\ stack' = rest
       /\ UNCHANGED <<reqLog, turns>>

\* mutant of NotForErrorHandling: the negation is missing
ErrAndHandler(err, errHandler) == Truthy(err) /\ errHandler

\* if (err && !errHandler): the hook is skipped because an error is in flight
NotForErrorHandling(err, errHandler) == Truthy(err) /\ ~errHandler

\* mutant of ForErrorHandling: the branch is missing
HandlerNeverSkipped(err, errHandler) == FALSE

\* else if (!err && errHandler): the hook is skipped because no error is in flight
ForErrorHandling(err, errHandler) == ~Truthy(err) /\ errHandler

\* mutant of SkipArgument: next() in both skipping branches
SkipPassesNothing(err, errHandler) == UNDEFINED

\* what a skipping wrapper hands to next: next(err) for a normal hook, next() for a handler
SkipArgument(err, errHandler) == IF errHandler THEN UNDEFINED ELSE err

\* mutant of Catch: the call of the hook function is not inside a try block
Uncaught(val) == [caught |-> FALSE, err |-> val]

\* try { hook(...) } catch (err) { next(err) }: whatever value the hook function
\* throws is caught, and it is the value next is called with
Catch(val) == [caught |-> TRUE, err |-> val]

\* mutant of OnReturn: the wrapper calls next() itself when the hook function returns
NextOnReturn(c) == <<c>>

\* the calls of next the wrapper makes after the hook function has returned
\* without calling done: none, the try block ends the wrapper
OnReturn(c) == <<>>

\* mutant of Handed: an error in flight stays in flight whatever the hook function hands on
Sticky(err, val) == IF Truthy(err) THEN err ELSE val

\* const done = function(err) { ... next(err) } and catch (err) { next(err) }: the
\* err handed to next is the parameter of done, or the caught value, which
\* shadows the err the wrapper was called with
Handed(err, val) == val

\* the wrapped function add creates, called by next with the hook it took off the chain;
\* a value no wrapper catches unwinds every synchronous call in progress
Wrapped(L, R, r, h, err, rest, O) ==
    LET run == R[r]
        hook == hooks[h]
        L1 == LogNest(L, run.log, <<"middleware", hook.name>>)
        log == Len(L1)
        adv == advanced[hook.middleware]
        named == IF adv THEN <<>> ELSE <<hook.name>>
        t == Len(turns) + 1
        call(via, turn, e) == [run |-> r, via |-> via, turn |-> turn, err |-> e]
        visit(how, turn) == [hook |-> h, how |-> how, turn |-> turn]
        visited(how, turn) == [R EXCEPT ![r].visits = Append(@, visit(how, turn)),
                                        ![r].last = [hook |-> h, how |-> how, err |-> err]]
    IN /\ reqLog' = IF adv THEN reqLog ELSE log
       /\ UNCHANGED <<jobs, emitted>>
       /\ IF NotForErrorHandling(err, hook.errHandler)
          THEN /\ logs' = LogEvent(L1, log, <<"skipped">>,
                                   <<"Hook">> \o named \o <<"is not for error handling">>)
               /\ runs' = visited("skipped", 0)
               /\ stack' = <<call("skip", 0, SkipArgument(err, hook.errHandler))>> \o rest
               /\ turns' = turns
          ELSE IF ForErrorHandling(err, hook.errHandler)
          THEN /\ logs' = LogEvent(L1, log, <<"skipped">>,
                                   <<"Hook">> \o named \o <<"is for error handling">>)
               /\ runs' = visited("skipped", 0)
               /\ stack' = <<call("skip", 0, SkipArgument(err, hook.errHandler))>> \o rest
               /\ turns' = turns
          ELSE /\ logs' = IF ~adv
                          THEN LogEvent(L1, log, <<"middleware start">>, <<hook.name>>)
                          ELSE L1
               /\ \E out \in O :
                     LET c == IF out.kind = "throw" THEN Catch(out.val)
                              ELSE [caught |-> TRUE, err |-> out.val]
                         called == out.kind # "later" /\ c.caught
                     IN /\ turns' = Append(turns, [run |-> r, hook |-> h, log |-> log,
                                                   calls |-> IF called THEN 1 ELSE 0,
                                                   threw |-> out.kind = "throw",
                                                   passed |-> IF called THEN Passed(c.err)
                                                              ELSE "pending"])
                        /\ runs' = [visited("invoked", t) EXCEPT
                                       ![r].thrown = IF c.caught THEN @ ELSE Append(@, out.val)]
                        /\ stack' = IF ~c.caught THEN <<>>
                                    ELSE IF called THEN <<call(out.kind, t, Handed(err, c.err))>> \o rest
                                    ELSE OnReturn(call("return", t, UNDEFINED)) \o rest

\* next(err): the hook it takes off its copy of the chain, and what is left of the chain
NextCallback(run) ==
    LET n == Len(run.chain)
    IN IF run.reverse
       THEN [hook |-> run.chain[n], chain |-> SubSeq(run.chain, 1, n - 1)]
       ELSE [hook |-> Head(run.chain), chain |-> Tail(run.chain)]

\* one continuation call c: done(err) when a hook function makes it, next(err) otherwise
Continue(c, rest, O) ==
    LET r == c.run
        L == IF c.via = "done" THEN Done(logs, c.turn) ELSE logs
    IN /\ IF runs[r].chain = <<>>
          THEN Settle(L, r, c.err, rest)
          ELSE LET cb == NextCallback(runs[r])
               IN Wrapped(L, [runs EXCEPT ![r].chain = cb.chain], r, cb.hook, c.err, rest, O)
       /\ UNCHANGED <<advanced, hooks, keys, buckets, ordered, length, lastCall>>

\* the synchronous call in progress is made: the wrapper calling next, a hook
\* function calling done before it returns, a thrown value reaching the catch
Call(O) ==
    /\ stack # <<>>
    /\ Continue(Head(stack), Tail(stack), O)

\* a hook function that has returned calls the done it was given, from a later task
LateDone(t, v) ==
    /\ Idle
    /\ turns' = [turns EXCEPT ![t].calls = @ + 1, ![t].passed = Passed(v)]
    /\ stack' = <<[run |-> turns[t].run, via |-> "done", turn |-> t, err |-> v]>>
    /\ UNCHANGED <<advanced, hooks, keys, buckets, ordered, length, reqLog, logs, runs,
                   jobs, emitted, lastCall>>

\* mutant of OnComplete: promise.then(() => next(), () => next())
OnCompleteNoError ==
    /\ stack = <<>>
    /\ jobs # <<>>
    /\ LET r == Head(jobs)
       IN runs' = [runs EXCEPT ![r].completions = Append(@, UNDEFINED)]
    /\ jobs' = Tail(jobs)
    /\ UNCHANGED <<advanced, hooks, keys, buckets, ordered, length, reqLog, logs, turns,
                   stack, emitted, lastCall>>

\* mutant of Then: the reaction is called at once, whatever call is in progress
Immediately(calls) == TRUE

\* promise.then(next, next): the reaction is a job of its own, run when no
\* call is in progress
Then(calls) == calls = <<>>

\* the reaction promise.then(next, next) queued: onComplete is called with the
\* rejection value, or with undefined
OnComplete ==
    /\ Then(stack)
    /\ jobs # <<>>
    /\ LET r == Head(jobs)
       IN runs' = [runs EXCEPT ![r].completions = Append(@, runs[r].value)]
    /\ jobs' = Tail(jobs)
    /\ UNCHANGED <<advanced, hooks, keys, buckets, ordered, length, reqLog, logs, turns,
                   stack, emitted, lastCall>>

\* a hook function is running and has not yet called done or thrown: what it
\* calls now it calls before that
InHook == stack # <<>> /\ Head(stack).via \in {"done", "throw"}

\* the request the wrapper hands to the hook function of turn t, as its log:
\* proxy.request returns a Proxy whose log is the fnLog of the span of the turn,
\* or the request itself after req.log = fnLog
RequestOf(t) ==
    IF advanced[hooks[turns[t].hook].middleware] THEN turns[t].log ELSE reqLog

\* the hook function of turn t, which has not called done yet, calls
\* m.run(req, res, onComplete) or m.reverse(req, res, onComplete) with the
\* request it was given: while it is running, or from a later task
RunInHook(t, m, reverse, onComplete) ==
    /\ \/ InHook /\ Head(stack).turn = t /\ turns[t].calls = 1
       \/ Idle /\ turns[t].calls = 0
    /\ RunRequest(m, reverse, onComplete, RequestOf(t), t)

\* a call m.add(hook): the hook is the only argument
AddHook(m, hook) == Add(m, hook, Undefined)

RECURSIVE SumRepeats(_)
SumRepeats(T) ==
    IF T = <<>> THEN 0
    ELSE (IF Head(T).calls > 1 THEN Head(T).calls - 1 ELSE 0) + SumRepeats(Tail(T))

\* how many times a hook function has called its done again after the first time
Repeats == SumRepeats(turns)

\* The chain executor: hooks registered with add(hook), hook functions that do
\* anything of Outcomes, call done late, and call it again.
Next ==
    \/ \E hook \in Hooks : Len(hooks) < MaxHooks /\ Idle /\ AddHook(MiddlewareName, hook)
    \/ \E rev \in BOOLEAN, cb \in BOOLEAN :
          Len(runs) < MaxRuns /\ Run(MiddlewareName, rev, cb)
    \/ Call(Outcomes)
    \/ \E t \in 1..Len(turns), v \in Values :
          (turns[t].calls = 0 \/ Repeats < MaxRepeats) /\ LateDone(t, v)
    \/ OnComplete

Spec == Init /\ [][Next]_vars

\* The registry: hooks registered with add(weight, hook) at every weight of
\* Weights, hook functions that call done before they return.
NextOrder ==
    \/ \E w \in Weights, hook \in Hooks :
          Len(hooks) < MaxHooks /\ Idle /\ Add(MiddlewareName, Number(w), hook)
    \/ \E rev \in BOOLEAN, cb \in BOOLEAN :
          Len(runs) < MaxRuns /\ Run(MiddlewareName, rev, cb)
    \/ Call(SyncDone)
    \/ OnComplete

SpecOrder == Init /\ [][NextOrder]_vars

\* Several runs of one registry, one after the other or interleaved: hook
\* functions that call done once, before they return or later; hooks are added
\* between tasks and by hook functions, also while a run is in flight.
NextRuns ==
    \/ \E hook \in Hooks :
          Len(hooks) < MaxHooks /\ (Idle \/ InHook) /\ AddHook(MiddlewareName, hook)
    \/ \E rev \in BOOLEAN, cb \in BOOLEAN :
          Len(runs) < MaxInterleaved /\ Run(MiddlewareName, rev, cb)
    \/ Call(DoneOrLater)
    \/ \E t \in 1..Len(turns), v \in {UNDEFINED, "E1"} : turns[t].calls = 0 /\ LateDone(t, v)
    \/ OnComplete

SpecRuns == Init /\ [][NextRuns]_vars

\* the sequences of at most n items of S
SeqsUpTo(S, n) == UNION {[1..k -> S] : k \in 0..n}

\* what from is given: arrays of hook functions, also with an item that is not
\* a function
Iterables == SeqsUpTo(Hooks \cup {Object}, MaxItems)

\* The registry interface: add with a weight and with the hook alone, with
\* functions and with values that are not functions, from, and runs that build
\* the cached sequence; hook functions call done before they return.
NextRegistry ==
    \/ \E w \in Weights, hook \in Hooks \cup NotFunctions :
          Len(hooks) < MaxHooks /\ Idle /\ Add(MiddlewareName, Number(w), hook)
    \/ \E hook \in Hooks \cup {Object} :
          Len(hooks) < MaxHooks /\ Idle /\ AddHook(MiddlewareName, hook)
    \/ \E iterable \in Iterables :
          Len(hooks) + Len(iterable) <= MaxHooks /\ Idle /\ From(MiddlewareName, iterable)
    \/ \E rev \in BOOLEAN, cb \in BOOLEAN :
          Len(runs) < MaxRuns /\ Run(MiddlewareName, rev, cb)
    \/ Call(SyncDone)
    \/ OnComplete

SpecRegistry == Init /\ [][NextRegistry]_vars

\* the runs the host has started, and the runs hook functions have started
TopLevel == {r \in 1..Len(runs) : runs[r].starter = 0}
Nested == {r \in 1..Len(runs) : runs[r].starter # 0}

\* A hook function of one registry runs the other registry with the request it
\* was given: both registries get hooks, the host runs the first one, and a
\* hook function that has not called done yet runs the second one.
NextNested ==
    \/ \E m \in Registries, hook \in Hooks :
          Len(hooks) < MaxHooks /\ Idle /\ runs = <<>> /\ AddHook(m, hook)
    \/ \E rev \in BOOLEAN, cb \in BOOLEAN :
          Cardinality(TopLevel) < MaxRuns /\ Run(MiddlewareName, rev, cb)
    \/ \E t \in 1..Len(turns), rev \in BOOLEAN, cb \in BOOLEAN :
          /\ Cardinality(Nested) < MaxNested
          /\ hooks[turns[t].hook].middleware = MiddlewareName
          /\ RunInHook(t, ErrorProducer, rev, cb)
    \/ Call(DoneOrLater)
    \/ \E t \in 1..Len(turns), v \in {UNDEFINED, "E1"} : turns[t].calls = 0 /\ LateDone(t, v)
    \/ OnComplete

SpecNested == Init /\ [][NextNested]_vars

(* ======================= properties of the registry ==================== *)
RunIds == 1..Len(runs)

\* the hooks run r has visited so far, in the order of the visits
VisitedHooks(r) == [i \in 1..Len(runs[r].visits) |-> runs[r].visits[i].hook]

\* the elements of s, last first
RECURSIVE ReverseSeq(_)
ReverseSeq(s) == IF s = <<>> THEN <<>> ELSE Append(ReverseSeq(Tail(s)), Head(s))

IsPrefix(s, t) == Len(s) <= Len(t) /\ SubSeq(t, 1, Len(s)) = s

Settled(r) == runs[r].promise # "pending"

\* C1: of two hooks with weights w1 < w2 (numeric comparison), a forward run
\* visits the one registered at w1 before the one registered at w2.
C1_WeightOrder ==
    \A r \in RunIds :
        ~runs[r].reverse =>
            \A i, j \in 1..Len(runs[r].visits) :
                hooks[runs[r].visits[i].hook].weight < hooks[runs[r].visits[j].hook].weight
                    => i < j

\* C8: hooks registered at the same weight are visited by a forward run in the
\* order of their registration, whatever was registered at other weights in between.
C8_RegistrationOrder ==
    \A r \in RunIds :
        ~runs[r].reverse =>
            \A i, j \in 1..Len(runs[r].visits) :
                LET a == runs[r].visits[i].hook
                    b == runs[r].visits[j].hook
                IN (hooks[a].weight = hooks[b].weight /\ a < b) => i < j

\* C8 happens: a forward run has settled after visiting two hooks of one weight
\* between whose registrations a hook of another weight was registered.
C8_Witness ==
    \E r \in RunIds :
        /\ ~runs[r].reverse
        /\ Settled(r)
        /\ \E i, j, k \in 1..Len(runs[r].visits) :
              LET a == runs[r].visits[i].hook
                  b == runs[r].visits[j].hook
                  c == runs[r].visits[k].hook
              IN a < c /\ c < b /\ hooks[a].weight = hooks[b].weight
                 /\ hooks[c].weight # hooks[a].weight

\* a reverse run visits the sequence a forward run started with it would visit
\* (the snapshot of the execution sequence), last element first
ReversesSnapshot ==
    \A r \in RunIds :
        IsPrefix(VisitedHooks(r),
                 IF runs[r].reverse THEN ReverseSeq(runs[r].snapshot) ELSE runs[r].snapshot)

\* a reverse run visits a hook of higher weight before one of lower weight, and
\* of two hooks of one weight the one registered later first
HighestWeightFirst ==
    \A r \in RunIds :
        runs[r].reverse =>
            \A i, j \in 1..Len(runs[r].visits) :
                LET a == runs[r].visits[i].hook
                    b == runs[r].visits[j].hook
                IN (hooks[a].weight > hooks[b].weight
                        \/ (hooks[a].weight = hooks[b].weight /\ a > b)) => i < j

\* C9: the order in which reverse visits the hooks is the reversal of the order
\* in which run visits them over the whole flattened sequence: highest weight
\* first, and hooks of one weight in reverse registration order.
C9_ReverseOrder == ReversesSnapshot /\ HighestWeightFirst

(* ======================= properties of the executor ==================== *)
\* the continuation calls made and not yet executed
Pending == {stack[i] : i \in 1..Len(stack)}

\* the turns of run r
TurnsOf(r) == {t \in 1..Len(turns) : turns[t].run = r}

\* every hook function run r has invoked has called its continuation at most once
WellBehaved(r) == \A t \in TurnsOf(r) : turns[t].calls <= 1

\* C2: a hook function is invoked only when its class matches the error state
\* it is reached with: a normal hook never while an error is in flight, an
\* error-handling hook never while none is (an error is in flight when the
\* value handed to the wrapper is one the code's test `err` accepts).
C2_ClassMatches ==
    \A r \in RunIds :
        runs[r].last.how = "invoked" =>
            (Truthy(runs[r].last.err) <=> hooks[runs[r].last.hook].errHandler)

\* C2 happens: an error-handling hook has been invoked with an error, in a run
\* that skipped a normal hook before it.
C2_Witness ==
    \E r \in RunIds :
        /\ runs[r].last.how = "invoked"
        /\ hooks[runs[r].last.hook].errHandler
        /\ runs[r].last.err = "E2"
        /\ \E i \in 1..Len(runs[r].visits) : runs[r].visits[i].how = "skipped"

\* the end-of-hook logging of turn t has taken place: its span was released
\* and, in the compact mode, an end event was recorded on it
EndLogged(t) ==
    /\ logs[turns[t].log].releases >= 1
    /\ ~advanced[hooks[turns[t].hook].middleware] =>
          \E i \in 1..Len(logs[turns[t].log].events) :
              logs[turns[t].log].events[i].action = <<"middleware end">>

\* the hook function of turn t has finished and its continuation has been executed
Finished(t) ==
    /\ turns[t].calls >= 1
    /\ \A c \in Pending : c.turn # t

\* C3: a hook that throws v before calling done is treated exactly as if it had
\* called done(v); in particular the same end-of-hook logging takes place, so
\* every finished turn, thrown or not, has its end logged.
C3_ThrowIsDone == \A t \in 1..Len(turns) : Finished(t) => EndLogged(t)

\* C4: when the end of the sequence is reached the run rejects with exactly the
\* error in flight if there is one and resolves with no value otherwise; a run
\* of a registry with no hooks resolves.
C4_EndOfSequence ==
    \A r \in RunIds :
        /\ Settled(r) => runs[r].terminals # <<>> /\ runs[r].chain = <<>>
        /\ runs[r].terminals # <<>> =>
              IF Truthy(runs[r].settledWith)
              THEN runs[r].promise = "rejected" /\ runs[r].value = runs[r].settledWith
              ELSE runs[r].promise = "resolved" /\ runs[r].value = UNDEFINED
        /\ (runs[r].snapshot = <<>> /\ runs[r].terminals # <<>>) => runs[r].promise = "resolved"

\* C4 happens: a run has rejected with the second error after visiting two hooks.
C4_Witness ==
    \E r \in RunIds :
        /\ runs[r].promise = "rejected"
        /\ runs[r].value = "E2"
        /\ Len(runs[r].visits) >= 2

\* the log-report events emitted for run r
ReportsOf(r) ==
    {i \in 1..Len(emitted) : emitted[i].event = "log-report" /\ emitted[i].run = r}

\* C5: the terminal step of a run (the resolved / rejected event, the report of
\* a root run, the settling) happens exactly once per run, however many times a
\* hook invokes its continuation.
C5_TerminalOnce ==
    \A r \in RunIds : Len(runs[r].terminals) <= 1 /\ Cardinality(ReportsOf(r)) <= 1

\* C5 amended: the completion signal settles once and keeps its first outcome,
\* and onComplete is called at most once, however many times a hook invokes its
\* continuation; the terminal step is taken once each time the end of the
\* sequence is reached, which is at most once when no hook invokes its
\* continuation a second time.
C5_SettlesOnce ==
    \A r \in RunIds :
        /\ Len(runs[r].completions) <= 1
        /\ runs[r].promise = IF runs[r].terminals = <<>> THEN "pending" ELSE runs[r].terminals[1]
        /\ Cardinality(ReportsOf(r)) = IF runs[r].isRoot THEN Len(runs[r].terminals) ELSE 0
        /\ WellBehaved(r) => Len(runs[r].terminals) <= 1

\* C5 happens: a hook has invoked its continuation again, the end of the
\* sequence was reached twice with different outcomes, and onComplete was called.
C5_Witness ==
    \E r \in RunIds :
        /\ ~WellBehaved(r)
        /\ Len(runs[r].terminals) = 2
        /\ runs[r].terminals[1] # runs[r].terminals[2]
        /\ Len(runs[r].completions) = 1

\* C6: a hook skipped because its class does not match the error state is not
\* called, and the continuation is called with the error state unchanged: the
\* identical error when one is in flight, no error when none is.
C6_SkipPassesOn ==
    \A c \in Pending :
        c.via = "skip" =>
            LET run == runs[c.run] IN
            /\ run.last.how = "skipped"
            /\ c.err = IF Truthy(run.last.err) THEN run.last.err ELSE UNDEFINED
            /\ Cardinality(TurnsOf(c.run))
                  = Cardinality({i \in 1..Len(run.visits) : run.visits[i].how = "invoked"})

\* C6 happens: a normal hook has been skipped with the second error in flight.
C6_Witness ==
    \E c \in Pending :
        /\ c.via = "skip"
        /\ c.err = "E2"
        /\ ~hooks[runs[c.run].last.hook].errHandler

\* no hook function invoked between the i-th and the j-th visit of run r handed on an error
NoErrorBetween(r, i, j) ==
    \A k \in (i + 1)..(j - 1) :
        runs[r].visits[k].how = "invoked" => turns[runs[r].visits[k].turn].passed = "none"

\* C7: once an error-handling hook has taken its turn and called done with no
\* error, every later normal hook is invoked and every later error-handling
\* hook is skipped until a hook raises an error again, and the run resolves if
\* none does.
C7_HandlerClears ==
    \A r \in RunIds :
        WellBehaved(r) =>
            \A i \in 1..Len(runs[r].visits) :
                LET vi == runs[r].visits[i] IN
                (/\ vi.how = "invoked"
                 /\ hooks[vi.hook].errHandler
                 /\ turns[vi.turn].passed = "none"
                 /\ ~turns[vi.turn].threw)
                =>
                /\ \A j \in (i + 1)..Len(runs[r].visits) :
                      NoErrorBetween(r, i, j) =>
                          (runs[r].visits[j].how = "invoked"
                              <=> ~hooks[runs[r].visits[j].hook].errHandler)
                /\ (Settled(r) /\ NoErrorBetween(r, i, Len(runs[r].visits) + 1))
                      => runs[r].promise = "resolved"

\* C7 happens: a raises, a handler clears, a normal hook after it is invoked,
\* and the run resolves.
C7_Witness ==
    \E r \in RunIds :
        /\ WellBehaved(r)
        /\ runs[r].promise = "resolved"
        /\ Len(runs[r].visits) = 3
        /\ \A i \in 1..3 : runs[r].visits[i].how = "invoked"
        /\ ~hooks[runs[r].visits[1].hook].errHandler
        /\ hooks[runs[r].visits[2].hook].errHandler
        /\ ~hooks[runs[r].visits[3].hook].errHandler

\* C10: with onComplete, run and reverse return nothing and call onComplete
\* exactly once after the chain has settled, with the propagated error if it
\* failed and with undefined if it succeeded; without it they return a promise
\* that settles the same way.
C10_Completion ==
    \A r \in RunIds :
        LET run == runs[r]
            queued == \E i \in 1..Len(jobs) : jobs[i] = r
            result == IF Truthy(run.settledWith) THEN run.settledWith ELSE UNDEFINED
        IN /\ run.returned = IF run.onComplete THEN "undefined" ELSE "promise"
           /\ ~run.onComplete => run.completions = <<>> /\ ~queued
           /\ run.onComplete =>
                 /\ Len(run.completions) <= 1
                 /\ run.completions # <<>> => Settled(r) /\ run.completions[1] = result
                 /\ (Settled(r) /\ ~queued) => Len(run.completions) = 1
           /\ Settled(r) =>
                 /\ run.value = result
                 /\ run.promise = IF Truthy(run.settledWith) THEN "rejected" ELSE "resolved"

\* C10 happens: onComplete has been called with the error of a chain that
\* failed, and with undefined for a chain that succeeded.
C10_Witness ==
    \E r \in RunIds :
        /\ runs[r].onComplete
        /\ runs[r].visits # <<>>
        /\ runs[r].completions = <<"E1">>

(* ===================== properties of error handling ==================== *)
\* C11: no value a hook hands to done, or throws, is dropped: an error-handling
\* hook is passed over only when nothing was handed on, and a run that reaches
\* the end of its sequence with a value handed on rejects with that value,
\* whatever the value is (an error, a string, a falsy value).
C11_NoErrorDropped ==
    \A r \in RunIds :
        /\ (runs[r].last.how = "skipped" /\ hooks[runs[r].last.hook].errHandler)
              => runs[r].last.err = UNDEFINED
        /\ (runs[r].terminals # <<>> /\ runs[r].settledWith # UNDEFINED)
              => runs[r].promise = "rejected" /\ runs[r].value = runs[r].settledWith

\* C12: no value a hook hands to done or throws leaves run / reverse, or a later
\* continuation call, as an exception: run and reverse return normally, a thrown
\* value is handed to the continuation of the hook that threw it, and when it is
\* an error and that hook was the last one of the sequence the run rejects.
C12_NeverThrown ==
    \A r \in RunIds :
        /\ runs[r].thrown = <<>>
        /\ runs[r].returned \in {"promise", "undefined"}
        /\ \A t \in TurnsOf(r) :
              turns[t].threw =>
                  /\ turns[t].calls >= 1
                  /\ (/\ Finished(t)
                      /\ WellBehaved(r)
                      /\ turns[t].passed = "error"
                      /\ runs[r].chain = <<>>
                      /\ runs[r].last.how = "invoked"
                      /\ runs[r].visits[Len(runs[r].visits)].turn = t)
                     => runs[r].promise = "rejected"

\* C12 happens: the last hook of a run has thrown an error, the run had returned
\* a promise, and the promise is rejected with that error.
C12_Witness ==
    \E r \in RunIds, t \in 1..Len(turns) :
        /\ turns[t].run = r
        /\ turns[t].threw
        /\ runs[r].returned = "promise"
        /\ runs[r].promise = "rejected"
        /\ runs[r].value = "E1"
        /\ Len(runs[r].visits) >= 2

(* ======================= properties of several runs ==================== *)
\* the hooks of registry m among the first n wrapped functions created
HooksOf(m, n) == {h \in 1..n : hooks[h].middleware = m}

Range(s) == {s[i] : i \in 1..Len(s)}

\* the order in which run r visits the sequence it started with
Walk(r) == IF runs[r].reverse THEN ReverseSeq(runs[r].snapshot) ELSE runs[r].snapshot

\* the visits of run r in which the hook function was invoked
Invoked(r) == {i \in 1..Len(runs[r].visits) : runs[r].visits[i].how = "invoked"}

\* what the hook function run r invoked last has handed on: "none" when run r
\* has invoked no hook function
LastPassed(r) ==
    IF Invoked(r) = {} THEN "none"
    ELSE LET i == CHOOSE k \in Invoked(r) : \A j \in Invoked(r) : j <= k
         IN turns[runs[r].visits[i].turn].passed

\* C13: runs of one registry, one after the other or interleaved, are
\* independent: each walks the whole sequence from its start, visits every
\* registered hook exactly once when its hooks call done once, settles by what
\* its own hooks handed on, and invokes a hook function at most once, so that a
\* hook function has been invoked once for every run that invoked it.
C13_Independent ==
    /\ \A r \in RunIds :
          /\ Range(runs[r].snapshot) = HooksOf(runs[r].middleware, runs[r].registered)
          /\ IsPrefix(VisitedHooks(r), Walk(r))
          /\ WellBehaved(r) =>
                /\ runs[r].terminals # <<>> => VisitedHooks(r) = Walk(r)
                /\ Settled(r) =>
                      (runs[r].promise = "rejected" <=> LastPassed(r) = "error")
    /\ \A h \in 1..Len(hooks) :
          Cardinality({t \in 1..Len(turns) : turns[t].hook = h})
              = Cardinality({r \in RunIds : \E i \in Invoked(r) : runs[r].visits[i].hook = h})

\* C13 happens: two runs of the same two hooks have interleaved (a hook of the
\* second was invoked between two hooks of the first), one has rejected and the
\* other has resolved, and the second hook has been invoked exactly twice.
C13_Witness ==
    /\ Len(runs) = 2
    /\ runs[1].registered = 2 /\ runs[2].registered = 2
    /\ runs[1].promise = "rejected" /\ runs[2].promise = "resolved"
    /\ \E t1, t2, t3 \in 1..Len(turns) :
          /\ t1 < t2 /\ t2 < t3
          /\ turns[t1].run = 1 /\ turns[t2].run = 2 /\ turns[t3].run = 1
    /\ Cardinality({t \in 1..Len(turns) : turns[t].hook = 2}) = 2

\* C14: a hook added while a run is in flight is never visited by that run and
\* changes neither the order nor the set of the hooks the run still visits: the
\* hooks visited and the hooks still to visit are at any time the sequence the
\* run started with, which holds the hooks registered before the run started
\* and no other; so a run started after the add visits the added hook.
C14_AddDuringRun ==
    \A r \in RunIds :
        /\ \A i \in 1..Len(runs[r].visits) : runs[r].visits[i].hook <= runs[r].registered
        /\ runs[r].snapshot =
              IF runs[r].reverse
              THEN runs[r].chain \o ReverseSeq(VisitedHooks(r))
              ELSE VisitedHooks(r) \o runs[r].chain
        /\ Range(runs[r].snapshot) = HooksOf(runs[r].middleware, runs[r].registered)
        /\ Len(runs[r].snapshot) = Cardinality(Range(runs[r].snapshot))

\* C14 happens: a hook was added and a second run started while the first run
\* was in flight (the second run recorded its first event before the first run
\* recorded its last one, in the same log tree); the first run has settled
\* without visiting the added hook, and the second run has visited it.
C14_Witness ==
    /\ Len(runs) = 2
    /\ runs[1].registered = 1
    /\ runs[1].visits # <<>>
    /\ runs[1].visits[1].how = "invoked"
    /\ Settled(1)
    /\ Len(runs[1].visits) = 1
    /\ runs[2].registered = 2
    /\ \E i \in 1..Len(runs[2].visits) : runs[2].visits[i].hook = 2
    /\ logs[runs[2].log].root = logs[runs[1].log].root
    /\ LET first == logs[runs[1].log].events
           second == logs[runs[2].log].events
       IN first[Len(first)].index > second[1].index

(* ======================== properties of nested runs ==================== *)
\* C15: when a hook function of chain A starts a run of chain B, the outcome
\* of B is not handed to A: B settling calls no continuation of A and settles
\* only its own promise, so A, once its hooks have called done once, rejects
\* exactly when the hook function it invoked last handed on an error; A resolves
\* when the hook that started B calls done with no error after B has rejected.
C15_NotPropagated ==
    \A b \in Nested :
        LET t == runs[b].starter
            a == turns[t].run
        IN /\ a # b
           /\ runs[a].thrown = <<>>
           /\ \A c \in Pending :
                 (c.run = a /\ c.via \in {"done", "throw"}) => turns[c.turn].run = a
           /\ (turns[t].calls = 0 /\ runs[a].last.hook = turns[t].hook /\ runs[a].last.how = "invoked")
                 => ~Settled(a)
           /\ (WellBehaved(a) /\ Settled(a))
                 => (runs[a].promise = "rejected" <=> LastPassed(a) = "error")

\* C15 happens: the only hook of A has started B, B has rejected and its
\* onComplete was called with the error, the hook has called done with no
\* error, and A has resolved.
C15_Witness ==
    \E b \in Nested :
        LET t == runs[b].starter
            a == turns[t].run
        IN /\ runs[b].promise = "rejected"
           /\ runs[b].completions = <<"E1">>
           /\ turns[t].calls = 1
           /\ turns[t].passed = "none"
           /\ Len(runs[a].snapshot) = 1
           /\ runs[a].promise = "resolved"

(* =================== properties of the registry interface ============== *)
\* v is something that can be called
Callable(v) == v.type = "function"

\* the value a call add(a0, a1) is given as its hook
GivenHook(args) == IF Callable(args[1]) THEN args[1] ELSE args[2]

\* C16: add throws an error with code ESHOOK exactly when the value it is given
\* as hook is not a function; add(weight) with no hook at all throws it.
C16_InvalidHook ==
    lastCall.op = "add" =>
        (lastCall.thrown = "ESHOOK" <=> ~Callable(GivenHook(lastCall.args)))

\* C16 happens: add(9) with no hook has thrown ESHOOK on a registry that holds hooks.
C16_Witness ==
    /\ lastCall.op = "add"
    /\ lastCall.args = <<Number(9), Undefined>>
    /\ lastCall.thrown = "ESHOOK"
    /\ hooks # <<>>

\* the number of items of an array before its first item that cannot be called
RECURSIVE LeadingCallable(_)
LeadingCallable(items) ==
    IF items = <<>> \/ ~Callable(Head(items)) THEN 0
    ELSE 1 + LeadingCallable(Tail(items))

\* the call described by c was given a hook, or an item, that cannot be called
GivenNotCallable(c) ==
    IF c.op = "add" THEN ~Callable(GivenHook(c.args))
    ELSE \E i \in 1..Len(c.args) : ~Callable(c.args[i])

\* C17: a call of add that fails changes nothing in the registry; a call of
\* from that meets an item that cannot be called registers the items before it,
\* at weight 0 and in their order, and registers neither that item nor any item
\* after it.
C17_FailedAddAtomic ==
    [][(lastCall' # lastCall /\ GivenNotCallable(lastCall')) =>
          LET m == lastCall'.middleware
              k == IF lastCall'.op = "add" THEN 0 ELSE LeadingCallable(lastCall'.args)
              n == Len(hooks)
          IN /\ Len(hooks') = n + k
             /\ SubSeq(hooks', 1, n) = hooks
             /\ \A i \in 1..k :
                   /\ hooks'[n + i].middleware = m
                   /\ hooks'[n + i].weight = 0
                   /\ hooks'[n + i].errHandler = (lastCall'.args[i].n >= 4)
             /\ length'[m] = length[m] + k
             /\ buckets'[m] = [buckets[m] EXCEPT ![0] = @ \o [i \in 1..k |-> n + i]]
             /\ k = 0 => UNCHANGED <<hooks, keys, buckets, ordered, length>>
             /\ lastCall'.thrown = "ESHOOK"
      ]_vars

\* C17 happens: from was given a function, an object and a function, on a
\* registry whose sequence was cached; it threw, and the first function is the
\* only hook it registered.
C17_Witness ==
    /\ lastCall.op = "from"
    /\ lastCall.args = <<Function(3), Object, Function(4)>>
    /\ lastCall.thrown = "ESHOOK"
    /\ Len(hooks) = lastCall.before + 1
    /\ runs # <<>>

\* C18: length is the number of hooks registered so far, whatever their kinds
\* and weights; runs and failed adds leave it as it is.
C18_Length ==
    \A m \in Registries : length[m] = Cardinality(HooksOf(m, Len(hooks)))

\* C18 happens: two hooks of both kinds are registered at two weights, a run
\* has settled, the latest add has failed, and length is 2.
C18_Witness ==
    /\ length[MiddlewareName] = 2
    /\ \E g, h \in 1..Len(hooks) :
          hooks[g].errHandler /\ ~hooks[h].errHandler /\ hooks[g].weight # hooks[h].weight
    /\ \E r \in RunIds : Settled(r)
    /\ lastCall.op = "add"
    /\ lastCall.thrown = "ESHOOK"

\* the hooks of an array registered one by one, with add(0, hook) or add(hook)
RECURSIVE AddEach(_, _, _, _)
AddEach(this, m, items, alone) ==
    IF items = <<>> THEN this
    ELSE AddEach(IF alone THEN add(this, m, Head(items), Undefined)
                 ELSE add(this, m, Number(0), Head(items)),
                 m, Tail(items), alone)

\* C19: a call of from with an array of hook functions leaves the registry, and
\* so the execution sequence, as registering the same hooks one by one with
\* add(0, hook), or with add(hook), on the registry as it was would leave it,
\* whatever hooks the registry held at weight 0 and at other weights.
C19_FromIsAdds ==
    [][\A m \in Registries :
          (/\ lastCall' # lastCall
           /\ lastCall'.op = "from"
           /\ lastCall'.middleware = m
           /\ ~GivenNotCallable(lastCall'))
          =>
          LET one == AddEach(This(m), m, lastCall'.args, FALSE)
              alone == AddEach(This(m), m, lastCall'.args, TRUE)
          IN /\ This(m)' = one
             /\ This(m)' = alone
             /\ Sort(This(m)') = Sort(one)
             /\ Sort(This(m)') = Sort(alone)
      ]_vars

\* C19 happens: from has registered a hook on a registry that held a hook at
\* weight 0 and a hook at another weight, and a run has visited the three.
C19_Witness ==
    /\ lastCall.op = "from"
    /\ lastCall.thrown = "none"
    /\ lastCall.before = 2
    /\ Len(hooks) = 3
    /\ hooks[1].weight = 0
    /\ hooks[2].weight # 0
    /\ \E r \in RunIds : Settled(r) /\ Len(runs[r].visits) = 3

\* the cached sequence of a registry, when there is one, holds every hook
\* registered in it once, and a run starts with every hook registered before it
CacheIsFlattening ==
    /\ \A m \in Registries :
          ~ordered[m].isNull =>
              /\ Len(ordered[m].list) = length[m]
              /\ Range(ordered[m].list) = HooksOf(m, Len(hooks))
    /\ \A r \in RunIds :
          Range(runs[r].snapshot) = HooksOf(runs[r].middleware, runs[r].registered)

\* the cached sequence is in the order of the weights, and in the order of
\* registration within one weight
CacheWeightOrdered ==
    \A m \in Registries :
        ~ordered[m].isNull =>
            \A i, j \in 1..Len(ordered[m].list) :
                LET a == ordered[m].list[i]
                    b == ordered[m].list[j]
                IN (hooks[a].weight < hooks[b].weight
                        \/ (hooks[a].weight = hooks[b].weight /\ a < b)) => i < j

\* C20: a cached execution sequence is the weight-ordered flattening of all
\* hooks registered and has the size length; add discards it and the next run
\* rebuilds it, so a run started after an add visits the added hook.
C20_CacheCoherent == CacheIsFlattening /\ CacheWeightOrdered

(* ================== repeated runs of one registry ====================== *)
\* a call m.sort(): the execution sequence is derived again and stored
SortCall(m) ==
    /\ Idle
    /\ ordered' = [ordered EXCEPT ![m] = [isNull |-> FALSE, list |-> Sort(This(m))]]
    /\ lastCall' = [op |-> "sort", middleware |-> m, args |-> <<>>, thrown |-> "none",
                    before |-> Len(hooks)]
    /\ UNCHANGED <<advanced, hooks, keys, buckets, length, reqLog, logs, runs, turns,
                   stack, jobs, emitted>>

\* a read of m.length: the getter returns _.length and touches nothing
Length(m) ==
    /\ Idle
    /\ lastCall' = [op |-> "length", middleware |-> m, args |-> <<>>, thrown |-> "none",
                    before |-> length[m]]
    /\ UNCHANGED <<advanced, hooks, keys, buckets, ordered, length, reqLog, logs, runs,
                   turns, stack, jobs, emitted>>

\* One registry that is run again and again: hooks registered at every weight
\* of Weights, runs and reverse runs that return their promise, calls of sort
\* and reads of length between them; hook functions call done before they return.
NextRerun ==
    \/ \E w \in Weights, hook \in Hooks :
          Len(hooks) < MaxHooks /\ Idle /\ Add(MiddlewareName, Number(w), hook)
    \/ \E rev \in BOOLEAN : Len(runs) < MaxReruns /\ Run(MiddlewareName, rev, FALSE)
    \/ lastCall.op # "sort" /\ SortCall(MiddlewareName)
    \/ lastCall.op # "length" /\ Length(MiddlewareName)
    \/ Call(SyncDone)

SpecRerun == Init /\ [][NextRerun]_vars

\* run r has walked its whole chain
Walked(r) == runs[r].chain = <<>> /\ runs[r].terminals # <<>>

\* runs a and b of one registry with no add between their starts
NoAddBetween(a, b) ==
    /\ runs[a].middleware = runs[b].middleware
    /\ runs[a].registered = runs[b].registered

\* the hooks of run r in the order of a forward run
ForwardOrder(r) == IF runs[r].reverse THEN ReverseSeq(VisitedHooks(r)) ELSE VisitedHooks(r)

SameOrder ==
    \A a, b \in RunIds :
        (NoAddBetween(a, b) /\ Walked(a) /\ Walked(b)) => ForwardOrder(a) = ForwardOrder(b)

CacheKept ==
    \A m \in Registries :
        (hooks' = hooks /\ ~ordered[m].isNull) => ordered'[m] = ordered[m]

\* C21: a step that is not an add (a read of length, a run, a call of sort)
\* leaves a cached execution sequence as it is, and runs started with no add
\* between them visit the same hooks in the same order (a reverse run in the
\* opposite order).
C21_Idempotent == []SameOrder /\ [][CacheKept]_vars

C21_Witness ==
    /\ Len(runs) = 2 /\ NoAddBetween(1, 2) /\ Walked(1) /\ Walked(2)
    /\ Len(runs[2].visits) = 3
    /\ \E i, j \in 1..3 : hooks[runs[2].visits[i].hook].weight
                             # hooks[runs[2].visits[j].hook].weight
    /\ lastCall.op \in {"sort", "length"}

(* ==================== one hook at a time, stalls ====================== *)
\* every turn of a run that another turn of the run has followed has called
\* its continuation (or thrown) by then
OneAtATime(r) == \A t, u \in TurnsOf(r) : t < u => turns[t].calls >= 1

\* C22: within one run a hook function is started only after the hook function
\* started before it has invoked its continuation or thrown, so at most one
\* hook of a run is between its start and its continuation call.
C22_OneActive == \A r \in RunIds : OneAtATime(r)

\* C22 amended: the same, for the runs in which no hook function invokes its
\* continuation a second time.
C22_OneActiveOnce == \A r \in RunIds : WellBehaved(r) => OneAtATime(r)

C22_Witness ==
    \E r \in RunIds :
        /\ WellBehaved(r)
        /\ \E t, u \in TurnsOf(r) : t < u /\ turns[u].calls = 0 /\ ~turns[t].threw
        /\ runs[r].chain # <<>>
        /\ Idle

\* the hook function of turn t has returned without calling its continuation:
\* the run is where that hook left it
StalledAt(t) ==
    LET run == runs[turns[t].run]
    IN /\ run.promise = "pending"
       /\ run.terminals = <<>>
       /\ run.completions = <<>>
       /\ run.visits[Len(run.visits)].turn = t

\* C23: while a hook function that was invoked has not called its continuation
\* (and has not thrown), its run is not settled, onComplete has not been
\* called, and no hook after it has been visited.
C23_Stalls == \A t \in 1..Len(turns) : turns[t].calls = 0 => StalledAt(t)

\* C23 amended: the same, for the runs in which no hook function invokes its
\* continuation a second time.
C23_StallsOnce ==
    \A t \in 1..Len(turns) :
        (turns[t].calls = 0 /\ WellBehaved(turns[t].run)) => StalledAt(t)

C23_Witness ==
    \E t \in 1..Len(turns) :
        /\ turns[t].calls = 0
        /\ WellBehaved(turns[t].run)
        /\ Idle
        /\ runs[turns[t].run].chain # <<>>
        /\ runs[turns[t].run].onComplete
        /\ Len(runs[turns[t].run].visits) >= 2

(* ========================= the host request =========================== *)
\* C24: when a run the host started has settled, the request the host passed
\* in is as it was: its log is still the host's own log method, in the detailed
\* and in the compact logging mode.
C24_RequestUntouched ==
    \A r \in RunIds : (runs[r].starter = 0 /\ Settled(r)) => reqLog = 0

(* ===================== hooks that write to the log ===================== *)
\* what a hook function calls req.log with: nothing, a message, an action and
\* a message
ArgLists == {<<>>, <<"do">>, <<"sync", "in sync">>}

\* arguments[i - 1] of a call with the arguments args
Arg(args, i) == IF i <= Len(args) THEN args[i] ELSE UNDEFINED

\* mutant of MissingAction: the arguments are not checked
NeverMissing(args) == FALSE

\* action === undefined
MissingAction(args) == Arg(args, 1) = UNDEFINED

\* Log.prototype.event(action, message) up to the recording: what it throws, or
\* the action and the message of the event it records
EventOf(args) ==
    IF MissingAction(args)
    THEN [thrown |-> "EPARM", action |-> <<>>, message |-> <<>>]
    ELSE IF Arg(args, 2) = UNDEFINED
    THEN [thrown |-> "none", action |-> <<"log">>, message |-> <<Arg(args, 1)>>]
    ELSE [thrown |-> "none", action |-> <<Arg(args, 1)>>, message |-> <<Arg(args, 2)>>]

\* mutant of Rejected: the event object is built with index: this.root.index++
\* before the arguments are looked at
CountedFirst(L, id) == [L EXCEPT ![Counter(L, id)].index = @ + 1]

\* Log.prototype.event when it throws: the arguments are looked at before
\* event.active and event.index are set and before the event is pushed, so the
\* Logs are as they were
Rejected(L, id) == L

\* the hook function of turn t, which has not called done yet, calls
\* req.log(...args): fnLog records the event on its span and emits it; an error
\* of Log.prototype.event is raised to the hook function, which catches it, or
\* which lets it reach the catch of the wrapper when the wrapper is its caller
HookLog(t, args, caught) ==
    /\ \/ InHook /\ Head(stack).turn = t
       \/ Idle /\ turns[t].calls = 0
    /\ LET id == RequestOf(t)
           e == EventOf(args)
       IN /\ lastCall' = [op |-> "log", middleware |-> hooks[turns[t].hook].middleware,
                          args |-> args, thrown |-> e.thrown,
                          before |-> logs[logs[id].root].index, turn |-> t]
          /\ IF e.thrown = "none"
             THEN /\ logs' = LogEvent(logs, id, e.action, e.message)
                  /\ emitted' = Append(emitted, [event |-> "log", run |-> turns[t].run,
                                                 log |-> id])
                  /\ UNCHANGED <<turns, stack>>
             ELSE /\ logs' = Rejected(logs, id)
                  /\ emitted' = emitted
                  /\ IF caught \/ ~InHook
                     THEN UNCHANGED <<turns, stack>>
                     ELSE /\ turns' = [turns EXCEPT ![t].threw = TRUE, ![t].passed = "error"]
                          /\ stack' = <<[Head(stack) EXCEPT !.via = "throw",
                                                            !.err = e.thrown]>> \o Tail(stack)
    /\ UNCHANGED <<advanced, hooks, keys, buckets, ordered, length, reqLog, runs, jobs>>

\* results.join('\n') of an array of strings, each string kept as the sequence
\* of its lines: the lines of the elements one after the other; the join of an
\* empty array is the empty string, which is one empty line where it is put
\* into another array
Join(results, id) ==
    IF results = <<>>
    THEN <<[header |-> FALSE, flagged |-> FALSE, depth |-> 0, text |-> <<>>, index |-> -1,
            span |-> id]>>
    ELSE Concat(results)

\* Log.prototype.report(): one line per event, flagged when event.active is
\* false, the report of a nested span where the span was opened, and a header
\* line per span in the detailed mode; every line is kept with the span it is of
RECURSIVE Report(_, _, _), ReportFrom(_, _, _, _)
Report(L, id, adv) ==
    Join((IF adv THEN << <<[header |-> TRUE, flagged |-> FALSE, depth |-> L[id].depth,
                            text |-> L[id].category, index |-> -1, span |-> id]>> >>
          ELSE <<>>) \o ReportFrom(L, id, 1, adv),
         id)

\* the elements the loop over events[i], events[i + 1], ... adds to results
ReportFrom(L, id, i, adv) ==
    IF i > Len(L[id].events) THEN <<>>
    ELSE LET event == L[id].events[i]
         IN <<IF event.kind = "log" THEN Report(L, event.span, adv)
              ELSE <<[header |-> FALSE, flagged |-> ~event.active,
                      depth |-> IF adv THEN L[id].depth ELSE 0,
                      text |-> event.action \o event.message, index |-> event.index,
                      span |-> id]>> >>
            \o ReportFrom(L, id, i + 1, adv)

\* the hook functions of the log tests: each calls done or throws, with an
\* error or with none, or it returns and calls done later
LogOutcomes == DoneOrLater \cup {[kind |-> "throw", val |-> "E1"]}

\* the events hook functions have recorded so far
HookEvents == Cardinality({i \in 1..Len(emitted) : emitted[i].event = "log"})

\* new Middleware('test-middleware', config) and new Middleware('sub-middleware',
\* config): both registries are constructed with the same config, detailed or compact
InitLog ==
    /\ advanced \in {[m \in Registries |-> a] : a \in BOOLEAN}
    /\ hooks = <<>>
    /\ keys = [m \in Registries |-> <<>>]
    /\ buckets = [m \in Registries |-> [w \in Weights |-> <<>>]]
    /\ ordered = [m \in Registries |-> [isNull |-> TRUE, list |-> <<>>]]
    /\ length = [m \in Registries |-> 0]
    /\ reqLog = 0
    /\ logs = <<>>
    /\ runs = <<>>
    /\ turns = <<>>
    /\ stack = <<>>
    /\ jobs = <<>>
    /\ emitted = <<>>
    /\ lastCall = [op |-> "none", middleware |-> MiddlewareName, args |-> <<>>,
                   thrown |-> "none", before |-> 0]

\* The log tests: the host runs the outer registry, a hook function of it runs
\* the inner registry with the request it was given, and hook functions write
\* to the log of their request, before they call done and from later tasks.
NextLog ==
    \/ \E m \in Registries, hook \in Hooks :
          Len(hooks) < MaxHooks /\ Idle /\ runs = <<>> /\ AddHook(m, hook)
    \/ Cardinality(TopLevel) < MaxRuns /\ Run(MiddlewareName, FALSE, FALSE)
    \/ \E t \in 1..Len(turns), rev \in BOOLEAN :
          /\ Cardinality(Nested) < MaxNested
          /\ hooks[turns[t].hook].middleware = MiddlewareName
          /\ RunInHook(t, ErrorProducer, rev, TRUE)
    \/ Call(LogOutcomes)
    \/ \E t \in 1..Len(turns), v \in {UNDEFINED, "E1"} : turns[t].calls = 0 /\ LateDone(t, v)
    \/ OnComplete
    \/ \E t \in 1..Len(turns), args \in ArgLists, caught \in BOOLEAN :
          /\ IF args = <<>> THEN lastCall.thrown # "EPARM" ELSE HookEvents < MaxEvents
          /\ HookLog(t, args, caught)

SpecLog == InitLog /\ [][NextLog]_vars

(* ====================== properties of the log ========================== *)
\* the latest call of req.log was made with no argument
LogWithoutAction(call) == call.op = "log" /\ call.args = <<>>

\* the call raises EPARM and records nothing; a hook function that catches the
\* error is where it was, one that does not has thrown the error to its wrapper
RaisedToHook ==
    (lastCall' # lastCall /\ LogWithoutAction(lastCall')) =>
        /\ lastCall'.thrown = "EPARM"
        /\ logs' = logs /\ emitted' = emitted /\ runs' = runs /\ reqLog' = reqLog
        /\ \/ turns' = turns /\ stack' = stack
           \/ /\ InHook
              /\ Head(stack').via = "throw" /\ Head(stack').err = "EPARM"
              /\ Tail(stack') = Tail(stack)

\* the hook function that caught the error has called done with no error and its
\* call has been executed: the next hook of the chain has been visited, or the
\* run has resolved
ChainContinues ==
    LogWithoutAction(lastCall) =>
        LET t == lastCall.turn
            run == runs[turns[t].run]
            i == CHOOSE i \in 1..Len(run.visits) : run.visits[i].turn = t
        IN (Finished(t) /\ ~turns[t].threw /\ turns[t].passed = "none") =>
               IF Len(run.visits) > i
               THEN run.visits[i + 1].how = "invoked"
                        => ~hooks[run.visits[i + 1].hook].errHandler
               ELSE run.chain = <<>> /\ run.terminals = <<"resolved">>
                        /\ run.promise = "resolved"

\* C25: req.log() with no argument raises an error with code EPARM to the hook
\* function that calls it and records no event; when the hook function catches
\* it and calls done, the chain goes on as after any hook.
C25_MissingAction == []ChainContinues /\ [][RaisedToHook]_vars

C25_Witness ==
    /\ LogWithoutAction(lastCall)
    /\ lastCall.thrown = "EPARM"
    /\ LET t == lastCall.turn
       IN /\ Finished(t) /\ ~turns[t].threw /\ turns[t].passed = "none"
          /\ Len(runs[turns[t].run].visits) >= 2
          /\ runs[turns[t].run].visits[1].turn = t
          /\ runs[turns[t].run].promise = "resolved"

\* the step records an event a hook function has written with req.log
HookRecords == Len(emitted') = Len(emitted) + 1 /\ emitted'[Len(emitted')].event = "log"

\* the line of the event with index k in the report of the tree of root, in the
\* logging mode of the registry whose run created the root
LinesOf(L, root, k) ==
    LET r == CHOOSE r \in RunIds : runs[r].log = root
        report == Report(L, root, advanced[runs[r].middleware])
    IN {i \in 1..Len(report) : ~report[i].header /\ report[i].index = k}

Flagged(L, root, k) ==
    LET r == CHOOSE r \in RunIds : runs[r].log = root
        report == Report(L, root, advanced[runs[r].middleware])
    IN \A i \in LinesOf(L, root, k) : report[i].flagged

\* the runs the hook function of turn t has started
StartedBy(t) == {r \in RunIds : runs[r].starter = t}

\* the new event has one line in the report, flagged exactly when the span it
\* was recorded on was not the active span of the tree before the step; on the
\* span of the hook function that wrote it, it is flagged while the span of a
\* hook of a run that function has started is active, and not flagged when
\* the runs that function has started have settled
FlaggedIffInactive ==
    HookRecords =>
        LET id == emitted'[Len(emitted')].log
            t == lastCall'.turn
            root == logs[id].root
            k == logs[root].index
        IN /\ Cardinality(LinesOf(logs', root, k)) = 1
           /\ Flagged(logs', root, k) <=> logs[root].active # id
           /\ (/\ id = turns[t].log
               /\ \E u \in 1..Len(turns) :
                     turns[u].run \in StartedBy(t) /\ logs[root].active = turns[u].log)
                 => Flagged(logs', root, k)
           /\ (/\ id = turns[t].log
               /\ StartedBy(t) # {}
               /\ \A r \in StartedBy(t) : runs[r].terminals # <<>>)
                 => ~Flagged(logs', root, k)

\* C26: an event is flagged in the report exactly when the span it was recorded
\* on was not the active span of its tree when it was recorded; an event an
\* outer hook records on its own span while the span of a hook of the nested
\* run is active is flagged, one it records there after the nested run has
\* settled and released its spans is not.
C26_FlaggedIffInactive == [][FlaggedIffInactive]_vars

\* the test of the detailed mode: the outer hook has written to its own span
\* while the hook of the run it started was waiting
C26_Witness ==
    /\ advanced[MiddlewareName]
    /\ lastCall.op = "log" /\ lastCall.thrown = "none"
    /\ emitted # <<>> /\ emitted[Len(emitted)].event = "log"
    /\ LET t == lastCall.turn
           id == emitted[Len(emitted)].log
       IN /\ id = turns[t].log
          /\ \E r \in StartedBy(t) : runs[r].visits # <<>> /\ runs[r].terminals = <<>>
          /\ Flagged(logs, logs[id].root, lastCall.before)

\* and it has written to its own span after that run has settled
BackIn ==
    /\ advanced[MiddlewareName]
    /\ lastCall.op = "log" /\ lastCall.thrown = "none"
    /\ emitted # <<>> /\ emitted[Len(emitted)].event = "log"
    /\ LET t == lastCall.turn
           id == emitted[Len(emitted)].log
       IN /\ id = turns[t].log
          /\ \E r \in StartedBy(t) : runs[r].visits # <<>> /\ runs[r].terminals # <<>>
          /\ ~Flagged(logs, logs[id].root, lastCall.before)

\* the roots of the log trees, and the spans of the tree of a root
Roots == {l \in 1..Len(logs) : logs[l].parent = 0}
Spans(root) == {l \in 1..Len(logs) : logs[l].root = root}

\* the spans of the tree that have been opened and not released
Unreleased(root) == {l \in Spans(root) : logs[l].releases = 0}

\* the span opened last of a set of spans: Logs are numbered as they are created
Latest(S) == CHOOSE l \in S : \A k \in S : k <= l

\* C27: in every log tree the active span is the span opened most recently
\* among those not yet released (none when all are released), also in runs in
\* which hooks are skipped or throw.
C27_ActiveIsLatestOpen ==
    \A root \in Roots :
        logs[root].active = IF Unreleased(root) = {} THEN 0 ELSE Latest(Unreleased(root))

\* no hook of the runs has been skipped and none has thrown
NoSkipNoThrow ==
    /\ \A r \in RunIds : \A i \in 1..Len(runs[r].visits) : runs[r].visits[i].how = "invoked"
    /\ \A t \in 1..Len(turns) : ~turns[t].threw /\ turns[t].calls <= 1

\* C28: every span that has a parent was attached to the span that was active
\* in its tree when it was opened and lies one level below it, a span without
\* a parent is a root at depth 0, and the span opened last in a tree by the
\* latest step is the active span of the tree.
C28_ChildOfActive ==
    \A l \in 1..Len(logs) :
        IF logs[l].parent = 0
        THEN logs[l].depth = 0 /\ logs[l].root = l
        ELSE /\ logs[l].parent = logs[l].opened
             /\ logs[l].depth = logs[logs[l].parent].depth + 1
             /\ logs[l].root = logs[logs[l].parent].root

\* the same without the span that was active: the span nest was called on
ChildOfCallee ==
    \A l \in 1..Len(logs) :
        IF logs[l].parent = 0
        THEN logs[l].depth = 0 /\ logs[l].root = l
        ELSE /\ logs[l].depth = logs[logs[l].parent].depth + 1
             /\ logs[l].root = logs[logs[l].parent].root
             /\ \E i \in 1..Len(logs[logs[l].parent].events) :
                   logs[logs[l].parent].events[i].span = l

\* the leaf events of the tree of root in the logs L: the span, the place in
\* the span's list, the index
Leaves(L, root) ==
    UNION {{<<l, i, L[l].events[i].index>> :
                i \in {j \in 1..Len(L[l].events) : L[l].events[j].kind = "event"}} :
            l \in {k \in 1..Len(L) : L[k].root = root}}

\* the leaf events of a tree carry the numbers 0 .. n - 1, each once, where n is
\* the counter of the root, and in every span they are in ascending order
Numbered ==
    \A root \in Roots :
        /\ {e[3] : e \in Leaves(logs, root)} = 0..(logs[root].index - 1)
        /\ Cardinality(Leaves(logs, root)) = logs[root].index
        /\ \A e, f \in Leaves(logs, root) : (e[1] = f[1] /\ e[2] < f[2]) => e[3] < f[3]

\* the events a step records get the numbers from the counter of the root on
InRecordOrder ==
    \A root \in {l \in 1..Len(logs') : logs'[l].parent = 0} :
        \A e \in Leaves(logs', root) :
            LET before == IF root <= Len(logs) THEN logs[root].index ELSE 0
                old == e[1] <= Len(logs) /\ e[2] <= Len(logs[e[1]].events)
            IN IF old THEN logs[e[1]].events[e[2]].index = e[3] ELSE e[3] >= before

\* C29: the leaf events of one log tree are numbered by the counter of its
\* root: the k-th event recorded anywhere in the tree has index k, in the
\* spans of nested runs too, so the indices are unique and ascend in the order
\* of recording.
C29_SingleCounter == []Numbered /\ [][InRecordOrder]_vars

\* events of the outer runner, of an outer hook and of the nested run in one tree
C29_Witness ==
    \E root \in Roots :
        /\ logs[root].index >= 5
        /\ \E e \in Leaves(logs, root) : logs[e[1]].depth = 3
        /\ \E e \in Leaves(logs, root) : logs[e[1]].depth = 1 /\ logs[e[1]].events[e[2]].action = <<"sync">>
        /\ \E e, f \in Leaves(logs, root) : e[3] < f[3] /\ logs[e[1]].depth > logs[f[1]].depth

\* span l lies below span a in a log tree
RECURSIVE Below(_, _)
Below(l, a) == logs[l].parent # 0 /\ (logs[l].parent = a \/ Below(logs[l].parent, a))

\* the runner span of the run r a hook function has started is a child of
\* the span of that hook function, in the tree of the run of that hook
RunnerUnderStarter(r) ==
    LET t == runs[r].starter
    IN /\ ~runs[r].isRoot
       /\ logs[runs[r].log].parent = turns[t].log
       /\ logs[runs[r].log].root = logs[runs[turns[t].run].log].root

\* the spans of the hooks of run r are children of its runner span
HooksUnderRunner(r) ==
    \A l \in 1..Len(logs) :
        (\E u \in TurnsOf(r) : turns[u].log = l) => logs[l].parent = runs[r].log

\* the events the hook functions of run r have written lie below its runner span
EventsUnderRunner(r) ==
    \A i \in 1..Len(emitted) :
        (emitted[i].event = "log" /\ emitted[i].run = r) => Below(emitted[i].log, runs[r].log)

\* A hook function of the outer registry runs the inner registry more than
\* once with the request it was given, one run after the other or interleaved;
\* both registries have the same logging mode.
NextStarts ==
    \/ \E m \in Registries, hook \in Hooks :
          Len(hooks) < MaxHooks /\ Idle /\ runs = <<>> /\ AddHook(m, hook)
    \/ Cardinality(TopLevel) < MaxRuns /\ Run(MiddlewareName, FALSE, FALSE)
    \/ \E t \in 1..Len(turns), rev \in BOOLEAN :
          /\ Cardinality(Nested) < MaxStarts
          /\ hooks[turns[t].hook].middleware = MiddlewareName
          /\ RunInHook(t, ErrorProducer, rev, TRUE)
    \/ Call(DoneOrLater)
    \/ \E t \in 1..Len(turns) : turns[t].calls = 0 /\ LateDone(t, UNDEFINED)
    \/ OnComplete

SpecStarts == InitLog /\ [][NextStarts]_vars

\* C30: when a hook function of one registry runs another registry with the
\* request it was given, the runner span of that run is a child of the span of
\* the hook function in the same tree, and the spans of the hooks of that run
\* and the events they write lie below the runner span.
C30_NestedUnderStarter ==
    \A r \in Nested : RunnerUnderStarter(r) /\ HooksUnderRunner(r) /\ EventsUnderRunner(r)

(* ===================== what the wrapper logs ========================== *)
\* the spans opened below span l, in the order of their opening
RECURSIVE ChildSpansFrom(_, _)
ChildSpansFrom(l, i) ==
    IF i > Len(logs[l].events) THEN <<>>
    ELSE (IF logs[l].events[i].kind = "log" THEN <<logs[l].events[i].span>> ELSE <<>>)
         \o ChildSpansFrom(l, i + 1)

ChildSpans(l) == ChildSpansFrom(l, 1)

\* the actions of the leaf events of span l, in the order of their recording
RECURSIVE ActionsFrom(_, _)
ActionsFrom(l, i) ==
    IF i > Len(logs[l].events) THEN <<>>
    ELSE (IF logs[l].events[i].kind = "event" THEN <<logs[l].events[i].action>> ELSE <<>>)
         \o ActionsFrom(l, i + 1)

ActionsOf(l) == ActionsFrom(l, 1)

\* the i-th visit of run r, whose span is the i-th span opened below the runner
\* span: a skipped hook has the one event skipped; a hook that took its turn has
\* its start logged first (in the compact mode an event, in the detailed mode
\* the span itself), and its end logged (an event in the compact mode, and the
\* release of its span) once it has finished and before a later visit
VisitLogged(r, i) ==
    LET visit == runs[r].visits[i]
        span == ChildSpans(runs[r].log)[i]
        compact == ~advanced[runs[r].middleware]
    IN IF visit.how = "skipped"
       THEN ActionsOf(span) = << <<"skipped">> >>
       ELSE /\ turns[visit.turn].log = span
            /\ \A k \in 1..Len(ActionsOf(span)) : ActionsOf(span)[k] # <<"skipped">>
            /\ compact => (ActionsOf(span) # <<>> /\ ActionsOf(span)[1] = <<"middleware start">>)
            /\ (Finished(visit.turn) \/ i < Len(runs[r].visits)) => EndLogged(visit.turn)

\* C31: for each hook that takes its turn a start is logged before the hook
\* function is invoked and an end when it finishes (calls done or throws), before
\* the next hook is visited; a skipped hook logs exactly one skipped event and
\* neither a start nor an end.
C31_StartEndLogged ==
    \A r \in RunIds : \A i \in 1..Len(runs[r].visits) : VisitLogged(r, i)

\* the same for the runs in which no hook function has thrown and none has
\* called done a second time
NoThrow(r) == \A t \in TurnsOf(r) : ~turns[t].threw

StartEndLoggedUnlessThrown ==
    \A r \in RunIds :
        (NoThrow(r) /\ WellBehaved(r)) => \A i \in 1..Len(runs[r].visits) : VisitLogged(r, i)

(* ============================ the report ============================== *)
\* the report of the tree of root, in the logging mode of its config: the
\* config of the registry whose run created the root
ReportOf(root) ==
    Report(logs, root, advanced[runs[CHOOSE r \in RunIds : runs[r].log = root].middleware])

\* span l and the spans below it
Subtree(l) == {k \in 1..Len(logs) : k = l \/ Below(k, l)}

\* the lines of the report rep that belong to the i-th element of the events of
\* span l: the line of a leaf event, the lines of a nested span and of the
\* spans below it
LinesOfItem(rep, l, i) ==
    LET event == logs[l].events[i]
    IN IF event.kind = "event"
       THEN {n \in 1..Len(rep) : rep[n].span = l /\ rep[n].index = event.index}
       ELSE {n \in 1..Len(rep) : rep[n].span \in Subtree(event.span)}

\* one line per leaf event, one header per span in the detailed mode and
\* none in the compact mode, and no other line
LineCount(root) ==
    LET rep == ReportOf(root)
        detailed == advanced[runs[CHOOSE r \in RunIds : runs[r].log = root].middleware]
    IN /\ \A e \in Leaves(logs, root) :
             Cardinality({n \in 1..Len(rep) :
                             ~rep[n].header /\ rep[n].span = e[1] /\ rep[n].index = e[3]}) = 1
       /\ \A l \in Spans(root) :
             Cardinality({n \in 1..Len(rep) : rep[n].header /\ rep[n].span = l})
                 = IF detailed THEN 1 ELSE 0
       /\ Len(rep) = Cardinality(Leaves(logs, root))
                        + IF detailed THEN Cardinality(Spans(root)) ELSE 0

\* depth first: the header of a span comes before everything of the span, and
\* what belongs to an earlier element of its events before what belongs to a
\* later one
DepthFirst(root) ==
    LET rep == ReportOf(root)
    IN \A l \in Spans(root) :
          /\ \A n, k \in 1..Len(rep) :
                (rep[n].header /\ rep[n].span = l /\ ~rep[k].header /\ rep[k].span \in Subtree(l))
                    => n < k
          /\ \A i, j \in 1..Len(logs[l].events) :
                i < j => \A n \in LinesOfItem(rep, l, i), k \in LinesOfItem(rep, l, j) : n < k

\* C32: the report lists the tree depth-first, the children of each span in the
\* order in which they were recorded or opened, with exactly one line per leaf
\* event, one header line per span in the detailed mode and no header line in
\* the compact mode.
C32_ReportLines == \A root \in Roots : LineCount(root) /\ DepthFirst(root)

\* the registries of the tree of root have the logging mode of the root's config
OneMode(root) ==
    \A r \in RunIds :
        logs[runs[r].log].root = root
            => advanced[runs[r].middleware]
                   = advanced[runs[CHOOSE q \in RunIds : runs[q].log = root].middleware]

ReportLinesInOneMode == \A root \in Roots : OneMode(root) => (LineCount(root) /\ DepthFirst(root))

(* ========================== every run settles ========================= *)
\* a hook function that has returned, without throwing and without calling
\* done, calls done now
SomeLateDone ==
    \E t \in 1..Len(turns), v \in {UNDEFINED, "E1"} :
        turns[t].calls = 0 /\ ~turns[t].threw /\ LateDone(t, v)

\* Runs of one registry whose hook functions call done once or throw, before
\* they return or later.
NextSettle ==
    \/ \E hook \in Hooks : Len(hooks) < MaxHooks /\ Idle /\ AddHook(MiddlewareName, hook)
    \/ \E rev \in BOOLEAN, cb \in BOOLEAN :
          Len(runs) < MaxRuns /\ Run(MiddlewareName, rev, cb)
    \/ Call(LogOutcomes)
    \/ SomeLateDone
    \/ OnComplete

\* a synchronous call in progress is executed and a queued promise reaction is
\* run (JavaScript runs a task and the microtasks it queues to completion);
\* every hook function that has not called done yet does so in the end
SpecSettle ==
    /\ Init /\ [][NextSettle]_vars
    /\ WF_vars(Call(LogOutcomes))
    /\ WF_vars(OnComplete)
    /\ WF_vars(SomeLateDone)

\* run r has been started
Started(r) == r <= Len(runs)

\* a settled run has visited each hook of its sequence once, in the order of
\* the sequence or in the opposite order
VisitedAll ==
    \A r \in RunIds :
        Settled(r) =>
            /\ runs[r].chain = <<>>
            /\ VisitedHooks(r) = IF runs[r].reverse THEN ReverseSeq(runs[r].snapshot)
                                 ELSE runs[r].snapshot

\* no hook of a settled run is visited
NoVisitAfterSettle ==
    \A r \in RunIds : Settled(r) => runs'[r].visits = runs[r].visits /\ Settled(r)'

\* C33: when every hook function that takes its turn calls its continuation
\* once or throws, every run and reverse settles in the end, having visited
\* (invoked or skipped) each hook of its sequence exactly once, and no hook of
\* the run is visited after that.
C33_Settles ==
    /\ \A r \in 1..MaxRuns : Started(r) ~> (Started(r) /\ Settled(r))
    /\ []VisitedAll
    /\ [][NoVisitAfterSettle]_vars

C33_Witness ==
    /\ Len(runs) = MaxRuns
    /\ \A r \in RunIds : Settled(r) /\ Len(runs[r].visits) >= 2
    /\ \E r \in RunIds : \E t \in TurnsOf(r) : turns[t].threw
    /\ \E r \in RunIds : \E i \in 1..Len(runs[r].visits) : runs[r].visits[i].how = "skipped"
    /\ \E r \in RunIds : runs[r].reverse /\ runs[r].completions # <<>>


(* ===================== the error state after a turn ==================== *)
\* the wrapper of visit i of run r found an error in flight: it invoked an
\* error-handling hook or skipped a normal one
ErrorSeenBy(r, i) ==
    LET v == runs[r].visits[i]
    IN IF hooks[v.hook].errHandler THEN v.how = "invoked" ELSE v.how = "skipped"

\* the turns of run r, in the order in which they were taken
Taken(r) == SelectSeq(runs[r].visits, LAMBDA v : v.how = "invoked")

\* the visit after a turn finds an error in flight exactly when the hook of the
\* turn handed one on
StateAfterTurn ==
    \A r \in RunIds :
        WellBehaved(r) =>
            \A i \in 1..(Len(runs[r].visits) - 1) :
                runs[r].visits[i].how = "invoked" =>
                    (ErrorSeenBy(r, i + 1) <=> turns[runs[r].visits[i].turn].passed = "error")

\* a settled run is rejected exactly when the last hook that took its turn
\* handed on an error
RejectsWithLast ==
    \A r \in RunIds :
        (WellBehaved(r) /\ Settled(r) /\ Taken(r) # <<>>) =>
            LET t == Taken(r)[Len(Taken(r))].turn
            IN (runs[r].promise = "rejected") <=> (turns[t].passed = "error")

\* the value a hook function hands on is the value the next wrapper is called
\* with, or the value the end of the sequence is reached with
HandsOn ==
    (stack # <<>> /\ Head(stack).via \in {"done", "throw"} /\ stack' # stack) =>
        LET c == Head(stack)
            r == c.run
        IN IF runs[r].chain # <<>>
           THEN runs'[r].last.err = c.err
           ELSE /\ runs[r].terminals = <<>> => runs'[r].settledWith = c.err
                /\ (runs[r].promise = "pending" /\ Truthy(c.err)) => runs'[r].value = c.err

\* C34: after a hook has taken its turn the error state in flight is what that
\* hook passed to done or threw, whatever error it was invoked with: a handler
\* that calls done(e2) replaces the earlier error, and the run rejects with the
\* error of the last hook that took its turn.
C34_ErrorReplaced == []StateAfterTurn /\ []RejectsWithLast /\ [][HandsOn]_vars

\* a handler invoked with E1 has handed on E2 and the run is rejected with E2
C34_Witness ==
    \E r \in RunIds :
        /\ WellBehaved(r) /\ runs[r].promise = "rejected" /\ runs[r].value = "E2"
        /\ runs[r].last.how = "invoked" /\ runs[r].last.err = "E1"
        /\ hooks[runs[r].last.hook].errHandler

\* a handler invoked with an error has cleared it and the run is resolved
Cleared ==
    \E r \in RunIds :
        /\ WellBehaved(r) /\ runs[r].promise = "resolved"
        /\ runs[r].last.how = "invoked" /\ Truthy(runs[r].last.err)

(* ========================= one report per host run ===================== *)
\* run r has emitted one report if the host started it and it has settled, and
\* none otherwise
OneReport(r) ==
    Cardinality(ReportsOf(r)) = IF runs[r].starter = 0 /\ Settled(r) THEN 1 ELSE 0

\* C35: every run or reverse the host starts emits exactly one log-report, when
\* it settles, and a nested run emits none; so it is for each of several runs
\* the host makes one after the other with the same request, in the detailed
\* and in the compact mode.
C35_OneReport == \A r \in RunIds : WellBehaved(r) => OneReport(r)

\* the same, for the runs of a registry in the detailed mode and for the first
\* run made with a request
OneReportDetailedOrFirst ==
    \A r \in RunIds :
        (WellBehaved(r) /\ (advanced[runs[r].middleware] \/ r = 1)) => OneReport(r)

\* the host has made a second run with the request after the first one has
\* settled, and the second run has settled without a report
SecondRunNoReport ==
    /\ Len(runs) = 2 /\ Settled(2) /\ runs[2].starter = 0
    /\ runs[1].terminals # <<>> /\ Len(logs) > 0 /\ logs[runs[2].log].root = logs[runs[1].log].root
    /\ ReportsOf(2) = {}

(* ==================== onComplete is called afterwards ================== *)
\* onComplete of run r is called in this step
CalledBack(r) ==
    IF r <= Len(runs) THEN runs'[r].completions # runs[r].completions
    ELSE runs'[r].completions # <<>>

\* onComplete is called in a step of its own, when the run has settled and no
\* call is in progress: not by the call that starts the run and not by a call
\* of next or done
AfterReturn ==
    \A r \in 1..Len(runs') :
        CalledBack(r) =>
            /\ r <= Len(runs) /\ Settled(r) /\ runs[r].onComplete
            /\ stack = <<>> /\ stack' = <<>>
            /\ runs'[r].promise = runs[r].promise /\ runs'[r].visits = runs[r].visits

\* C36: onComplete is never called synchronously inside the run or reverse
\* call that received it: it is called only after that call has returned, also
\* when the registry is empty and when every hook calls done synchronously.
C36_NotSynchronous == [][AfterReturn]_vars

\* onComplete of a run of an empty registry has been called, and so has the
\* one of a run of the host that has invoked at least two hooks and skipped none
C36_Witness ==
    /\ \E r \in RunIds : runs[r].snapshot = <<>> /\ runs[r].completions # <<>>
    /\ \E r \in RunIds :
          /\ runs[r].starter = 0 /\ runs[r].completions # <<>> /\ Len(runs[r].visits) >= 2
          /\ \A i \in 1..Len(runs[r].visits) : runs[r].visits[i].how = "invoked"

(* ================== flagged events of synchronous runs ================= *)
\* no line of the report of the tree of root is flagged
NoLineFlagged(root) ==
    LET report == ReportOf(root)
    IN \A i \in 1..Len(report) : ~report[i].flagged

\* the resolved / rejected events of run r were recorded while the runner span
\* was the active span
TerminalWhileActive(r) ==
    \A i \in 1..Len(logs[runs[r].log].events) :
        LET e == logs[runs[r].log].events[i]
        IN (e.kind = "event" /\ e.action[2] \in {"resolved", "rejected"}) => e.active

\* C37: in a run in which every hook finishes before it returns, and no hook
\* records events or starts runs, no event of the report is flagged as recorded
\* outside its active span; the resolved / rejected event is recorded while the
\* runner span is active, whether the last hook visited was executed, skipped
\* or threw.
C37_NothingFlagged ==
    /\ \A root \in Roots : NoLineFlagged(root)
    /\ \A r \in RunIds : TerminalWhileActive(r)

\* the same for the runs in which no hook is skipped and none throws
NothingFlaggedUnlessSkipped == NoSkipNoThrow => C37_NothingFlagged

\* a run has settled after two visits, the last hook was executed, and nothing
\* is flagged
ExecutedLastUnflagged ==
    /\ \E r \in RunIds : Settled(r) /\ Len(runs[r].visits) >= 2 /\ runs[r].last.how = "invoked"
    /\ C37_NothingFlagged

(* ============================== seconds =============================== *)
\* strings are the sequences of their code units: '0' is 48, '.' 46, ' ' 32, '+' 43

\* Math.pow(10, n)
RECURSIVE Pow10(_)
Pow10(n) == IF n = 0 THEN 1 ELSE 10 * Pow10(n - 1)

\* addCharacters(value, ch, after, length): ch is put after value, or before
\* it, until the result has length (here len) characters
RECURSIVE addCharacters(_, _, _, _)
addCharacters(value, ch, after, len) ==
    IF Len(value) < len
    THEN addCharacters(IF after THEN Append(value, ch) ELSE <<ch>> \o value, ch, after, len)
    ELSE value

\* Math.round(seconds), seconds = milliseconds / 1000: the quotient is exact at
\* a half, and a half is rounded up
RoundSeconds(milliseconds) == (milliseconds + 500) \div 1000

\* Math.round((seconds - numeral) * Math.pow(10, decimalLen)): the product is
\* computed in binary floating point, which is within a rounding error of
\* num / 1000; at a half the computed product falls on either side of it
Thousandths(milliseconds, decimalLen) ==
    LET num == (milliseconds % 1000) * Pow10(decimalLen)
    IN IF num % 1000 = 500 THEN {num \div 1000, num \div 1000 + 1}
       ELSE {(num + 500) \div 1000}

\* seconds(milliseconds): the strings it can return
seconds(milliseconds) ==
    IF milliseconds > 9999000 THEN {<<57, 57, 57, 57, 43>>}
    ELSE IF milliseconds > 999000 THEN {Append(NumToStr(RoundSeconds(milliseconds)), 32)}
    ELSE LET numeral == milliseconds \div 1000
             decimalLen == 4 - Len(NumToStr(numeral))
         IN {NumToStr(numeral) \o <<46>>
                \o addCharacters(NumToStr(thousandths), 48, numeral > 0, decimalLen) :
             thousandths \in Thousandths(milliseconds, decimalLen)}

\* the numbers of milliseconds of the seconds tests
Tests ==
    {0, 1, 10, 100, 1000, 10000, 100000, 1000000, 9999000, 10000000,
     11, 123, 1234, 12345, 123456, 1234567, 12345678}

\* the numbers of milliseconds at which the format changes
Thresholds == {100000, 999500, 1000000, 9999500, 10000000}

\* the numbers of milliseconds seconds is given: the small ones, the ones of
\* the tests, and the ones near a change of format
Millis ==
    (0..MaxMs) \cup Tests
        \cup UNION {{m \in (t - MaxNear)..(t + MaxNear) : m >= 0} : t \in Thresholds}

\* a number of milliseconds is about to be formatted
InitSeconds ==
    /\ advanced \in {a \in [Registries -> BOOLEAN] : a[ErrorProducer]}
    /\ hooks = <<>>
    /\ keys = [m \in Registries |-> <<>>]
    /\ buckets = [m \in Registries |-> [w \in Weights |-> <<>>]]
    /\ ordered = [m \in Registries |-> [isNull |-> TRUE, list |-> <<>>]]
    /\ length = [m \in Registries |-> 0]
    /\ reqLog = 0
    /\ logs = <<>>
    /\ runs = <<>>
    /\ turns = <<>>
    /\ stack = <<>>
    /\ jobs = <<>>
    /\ emitted = <<>>
    /\ \E milliseconds \in Millis :
          lastCall = [op |-> "none", middleware |-> MiddlewareName, args |-> <<milliseconds>>,
                      thrown |-> "none", before |-> 0]

\* the call seconds(milliseconds) of the report
Seconds ==
    /\ lastCall.op = "none"
    /\ \E returned \in seconds(lastCall.args[1]) :
          lastCall' = [op |-> "seconds", middleware |-> MiddlewareName, args |-> lastCall.args,
                       thrown |-> "none", before |-> 0, returned |-> returned]
    /\ UNCHANGED <<advanced, hooks, keys, buckets, ordered, length, reqLog, logs, runs,
                   turns, stack, jobs, emitted>>

NextSeconds == Seconds

SpecSeconds == InitSeconds /\ [][NextSeconds]_vars

\* value rounded to the nearest multiple of unit, a half to either side
Nearest(value, unit) ==
    IF (2 * value) % (2 * unit) = unit THEN {value \div unit, value \div unit + 1}
    ELSE {(2 * value + unit) \div (2 * unit)}

\* the decimal numeral of n / 10^places with places decimal places, the
\* fractional digits zero-padded on the left
Decimal(n, places) ==
    NumToStr(n \div Pow10(places)) \o <<46>>
        \o addCharacters(NumToStr(n % Pow10(places)), 48, FALSE, places)

\* what the format described gives for ms milliseconds
Described(ms) ==
    IF ms > 9999000 THEN {<<57, 57, 57, 57, 43>>}
    ELSE IF ms > 999000 THEN {Append(NumToStr(n), 32) : n \in Nearest(ms, 1000)}
    ELSE LET places == 4 - Len(NumToStr(ms \div 1000))
         IN {Decimal(n, places) : n \in Nearest(ms * Pow10(places), 1000)}

\* C38: for every number of milliseconds ms from 0 to 9,999,000, seconds(ms)
\* denotes ms / 1000 rounded to the shown precision, with 4 minus the number of
\* integer digits decimal places and the fractional digits zero-padded on the
\* left (1 -> '0.001', 1005 -> '1.005', 12345 -> '12.35'); above 999 s it is the
\* rounded integer followed by a space, and above 9999 s it is '9999+'.
C38_SecondsFormat ==
    lastCall.op = "seconds" => lastCall.returned \in Described(lastCall.args[1])

\* the same below one second, where the zeros are put before the digits
FormatBelowOneSecond ==
    (lastCall.op = "seconds" /\ lastCall.args[1] < 1000) =>
        lastCall.returned \in Described(lastCall.args[1])

\* seconds(1005) has returned '1.500'
Seconds1005 ==
    /\ lastCall.op = "seconds" /\ lastCall.args = <<1005>>
    /\ lastCall.returned = <<49, 46, 53, 48, 48>>

\* the tests of seconds pass
TestsPass ==
    (lastCall.op = "seconds" /\ lastCall.args[1] \in Tests) =>
        /\ lastCall.returned \in Described(lastCall.args[1])
        /\ Len(lastCall.returned) = 5

\* C40: seconds(ms) returns a string of exactly 5 characters for every ms >= 0,
\* so that the time column of the report has a fixed width.
C40_FiveCharacters == lastCall.op = "seconds" => Len(lastCall.returned) = 5

\* seconds(999001) has returned '999 ' and seconds(99996) '99.100'
FourCharacters ==
    /\ lastCall.op = "seconds" /\ lastCall.args = <<999001>>
    /\ lastCall.returned = <<57, 57, 57, 32>>

SixCharacters ==
    /\ lastCall.op = "seconds" /\ lastCall.args = <<99996>>
    /\ lastCall.returned = <<57, 57, 46, 49, 48, 48>>

(* ===================== a record call that fails ======================== *)
\* the call of req.log that fails leaves the span it was made on with the
\* events it had, the counter of the tree where it was, and the active span
\* of the tree the one it was; no span is opened
TreeUntouched ==
    (lastCall' # lastCall /\ lastCall'.op = "log" /\ lastCall'.thrown # "none") =>
        LET id == RequestOf(lastCall'.turn)
            root == logs[id].root
        IN /\ Len(logs') = Len(logs)
           /\ logs'[id].events = logs[id].events
           /\ logs'[root].index = logs[root].index
           /\ logs'[root].active = logs[root].active
           /\ \A l \in Spans(root) : logs'[l] = logs[l]

\* after a call that failed, and until the next call of req.log, the events of
\* the tree carry the numbers 0, 1, 2, ... with no number left out
NoNumberLeftOut ==
    (lastCall.op = "log" /\ lastCall.thrown # "none") =>
        LET root == logs[RequestOf(lastCall.turn)].root
        IN {e[3] : e \in Leaves(logs, root)} = 0..(logs[root].index - 1)

\* C39: a record call that fails for lack of a message leaves the log tree
\* unchanged: no event is appended to the span, the index counter of the tree
\* is not advanced, and the active span is unchanged.
C39_FailedCallNoTrace == []NoNumberLeftOut /\ [][TreeUntouched]_vars

\* a call of req.log with no argument has failed on a tree in which a hook
\* function had recorded an event, and the counter is where it was
C39_Witness ==
    /\ lastCall.op = "log" /\ lastCall.thrown = "EPARM"
    /\ HookEvents = 1
    /\ LET root == logs[RequestOf(lastCall.turn)].root
       IN logs[root].index = lastCall.before /\ lastCall.before >= 2

====
